---- MODULE Spec2Model ----
(***************************************************************************)
(* A model of the honeypot's ingestion pipeline (handlers, write buffer,   *)
(* event bus, store), of the SSH and Telnet session handlers and of the    *)
(* daily rollup aggregator.  Bytes and characters are integers (their code *)
(* points), strings are sequences of them, Option<T> is a sequence of zero *)
(* or one element (None == <<>>, Some(x) == <<x>>).                        *)
(***************************************************************************)
EXTENDS Integers, Sequences, FiniteSets, TLC

VARIABLES
    now,            \* the wall clock, ms since the epoch (Utc::now())
    nextEv,         \* ghost: identity given to the next event a handler creates
    queue,          \* the unbounded mpsc channel of the write buffer
    closed,         \* every WriteSender has been dropped
    closeBacklog,   \* ghost: number of events queued when the channel closed
    buffer,         \* write_buffer_task: the in-memory batch
    wbpc,           \* write_buffer_task: position of the worker
    dequeued,       \* ghost: event ids in the order rx.recv() returned them
    attempted,      \* ghost: event ids handed to a flush_batch call
    failed,         \* ghost: event ids of batches whose flush failed
    requests,       \* the requests table, rows in insertion order
    published,      \* event ids in the order EventBus::publish was called
    inflight,       \* direct db.insert_event calls that are awaiting the store
    stats_daily,    \* the stats_daily table: set of rollup rows
    nextHourly,     \* the hourly task: instant of its next interval tick
    backfill,       \* the backfill task: days left to aggregate, or not started
    channels,       \* SshSession.channels: ChannelId -> ChannelState
    everOpened,     \* ghost: channel ids the session has opened so far
    closedLives,    \* ghost: channels whose state was removed, with their history
    ssh_out,        \* what the last SSH callback wrote to the client
    sshCalls,       \* ghost: number of SSH callbacks handled
    sshAuth,        \* SshSession.username and auth_method, and the last auth callback
    tel,            \* the Telnet session task: its locals and position
    telSessions,    \* ghost: Telnet connections accepted so far
    biCall,         \* the last direct call of batch_insert_events and its result
    aggCall,        \* the last pair of aggregate_day calls and their results
    cache,          \* the caches of the get_cached_* functions: key -> entry
    api,            \* the API handlers: calls in progress, last request and response
    sse,            \* an SSE connection: its broadcast receiver and what it was sent
    iac,            \* read_telnet_line: its locals, and the bytes read and passed on
    ftp,            \* an FTP session task: its locals and position
    http,           \* HTTP requests in the logging middleware, and their logging tasks
    boot,           \* main: its position, its results so far and what it has started
    aggRun,         \* aggregate_day calls in progress, per calling task: position and locals
    statsCall       \* direct calls of get_stats_hybrid: the last one's arguments and result

wbVars  == <<queue, closed, closeBacklog, buffer, wbpc, dequeued, attempted, failed>>
dbVars  == <<requests, stats_daily>>
aggVars == <<nextHourly, backfill>>
sshVars == <<channels, everOpened, closedLives, ssh_out, sshCalls, sshAuth>>
telVars == <<tel, telSessions>>
apiVars == <<cache, api>>
callRest == <<biCall, aggCall, apiVars, sse, iac, http, boot, aggRun, statsCall>>
callVars == <<callRest, ftp>>
vars    == <<now, nextEv, wbVars, dbVars, published, inflight, aggVars, sshVars,
             telVars, callVars>>

----------------------------------------------------------------------------
(* Bounds of the model. *)

MaxEvents == 3          \* events the handlers create in one run
MaxChannelIds == 2      \* SSH channel ids the client may open
MaxSshCalls == 5        \* SSH callbacks in one run
MaxTelSessions == 1     \* Telnet connections accepted in one run

(* Program constants. *)

BATCH_SIZE == 100
DAY_MS == 86400000
HOUR_SECS == 3600
HOUR_MS == HOUR_SECS * 1000
MAX_LINE_BUFFER == 4096
MAX_CHANNELS_PER_SESSION == 5
MAX_COMMANDS == 100
TELNET_MAX_COMMANDS == 20

None == <<>>
Some(x) == <<x>>

----------------------------------------------------------------------------
(* Strings as sequences of code points. *)

IsWs(c) == c \in {9, 10, 11, 12, 13, 32}

RECURSIVE TrimStart(_)
TrimStart(s) == IF s # <<>> /\ IsWs(Head(s)) THEN TrimStart(Tail(s)) ELSE s

RECURSIVE TrimEnd(_)
TrimEnd(s) ==
    IF s # <<>> /\ IsWs(s[Len(s)]) THEN TrimEnd(SubSeq(s, 1, Len(s) - 1)) ELSE s

Trim(s) == TrimEnd(TrimStart(s))

LowerChar(c) == IF c >= 65 /\ c <= 90 THEN c + 32 ELSE c

ToLowercase(s) == [i \in 1..Len(s) |-> LowerChar(s[i])]

(* The first whitespace-separated token of s, <<>> when there is none. *)
RECURSIVE TakeToken(_)
TakeToken(s) ==
    IF s = <<>> \/ IsWs(Head(s)) THEN <<>> ELSE <<Head(s)>> \o TakeToken(Tail(s))

FirstToken(s) == TakeToken(TrimStart(s))

RECURSIVE JoinNoSeparator(_, _)
JoinNoSeparator(lines, sep) ==
    IF lines = <<>> THEN <<>> ELSE Head(lines) \o JoinNoSeparator(Tail(lines), sep)

RECURSIVE Join(_, _)
Join(lines, sep) ==
    IF lines = <<>> THEN <<>>
    ELSE IF Len(lines) = 1 THEN lines[1]
    ELSE LET half == Len(lines) \div 2
         IN  Join(SubSeq(lines, 1, half), sep) \o <<sep>>
             \o Join(SubSeq(lines, half + 1, Len(lines)), sep)

HexDigit(d) == IF d < 10 THEN 48 + d ELSE 87 + d

HexEncode(bytes) ==
    [i \in 1..(2 * Len(bytes)) |->
        IF i % 2 = 1 THEN HexDigit(bytes[(i + 1) \div 2] \div 16)
        ELSE HexDigit(bytes[i \div 2] % 16)]

(* String::from_utf8_lossy on the bytes the model sends: an ASCII byte is  *)
(* its character, any other byte becomes U+FFFD.                           *)
FromUtf8Lossy(bytes) ==
    [i \in 1..Len(bytes) |-> IF bytes[i] < 128 THEN bytes[i] ELSE 65533]

W_whoami == <<119, 104, 111, 97, 109, 105>>
W_ls == <<108, 115>>
W_cd == <<99, 100>>
W_exit == <<101, 120, 105, 116>>
W_quit == <<113, 117, 105, 116>>
W_logout == <<108, 111, 103, 111, 117, 116>>
W_root == <<114, 111, 111, 116>>
W_hunter == <<104, 117, 110, 116, 101, 114>>

----------------------------------------------------------------------------
(* The event record. *)

AttackEvent(id, ts, service, port, request) ==
    [id |-> id, timestamp |-> ts, service |-> service, port |-> port,
     request |-> request, payload |-> None, username |-> None,
     password |-> None, request_size |-> 0, chan |-> 0]

with_credentials(e, u, p) == [e EXCEPT !.username = Some(u), !.password = Some(p)]

with_payload(e, bytes) == [e EXCEPT !.payload = Some(HexEncode(bytes))]

with_request_size(e, n) == [e EXCEPT !.request_size = n]

Ids(events) == {events[i].id : i \in 1..Len(events)}

----------------------------------------------------------------------------
(* The store: the requests table. *)

NoFail == 0 - 1

(* AUTOINCREMENT: one more than the largest id of the table (no row is    *)
(* ever deleted).                                                          *)
NextRowid(rows) == IF rows = <<>> THEN 1 ELSE rows[Len(rows)].id + 1

InsertRow(rows, e, by) == Append(rows, [id |-> NextRowid(rows), ev |-> e, by |-> by])

(* One INSERT per event, in the order of the slice: the i-th takes the   *)
(* i-th next rowid.                                                        *)
InsertRows(rows, events, by) ==
    rows \o [i \in 1..Len(events) |->
                [id |-> NextRowid(rows) + i - 1, ev |-> events[i], by |-> by]]

(* Dropping the sqlx transaction without a commit rolls it back. *)
RollbackKeepsRows(before, tx) == tx

Rollback(before, tx) == before

(* Database::batch_insert_events.  failAt names the step that fails:      *)
(* 0 is pool.begin(), k in 1..Len(events) the k-th INSERT, Len(events)+1   *)
(* the commit, NoFail none.                                                 *)
BatchInsertEvents(rows, events, failAt) ==
    IF events = <<>> THEN [ok |-> TRUE, rows |-> rows]
    ELSE IF failAt = 0 THEN [ok |-> FALSE, rows |-> rows]
    ELSE LET n  == IF failAt \in 1..Len(events) THEN failAt - 1 ELSE Len(events)
             tx == InsertRows(rows, SubSeq(events, 1, n), "write_buffer")
         IN  IF failAt \in 1..(Len(events) + 1)
             THEN [ok |-> FALSE, rows |-> Rollback(rows, tx)]
             ELSE [ok |-> TRUE, rows |-> tx]

FailPoints(events) == {NoFail} \cup 0..(Len(events) + 1)

StoredIds == {requests[i].ev.id : i \in 1..Len(requests)}

----------------------------------------------------------------------------
(* The clock. *)

Midnight == 2 * DAY_MS

BootTime == Midnight - HOUR_MS + 100

(* The instants at which the model observes the clock. *)
ClockInstants == {BootTime, Midnight - 50, Midnight + 100, Midnight + 150}

ts_to_day_bucket(ts) == (ts \div DAY_MS) * DAY_MS

(* UTC midnight of the current date, as the code computes it from the    *)
(* year, month and day of Utc::now().                                     *)
TodayStart(t) == (t \div DAY_MS) * DAY_MS

(* Time passes.  The hourly task is not late: the clock does not pass the *)
(* instant of its next tick before the tick is taken.                      *)
Advance ==
    /\ \E t \in ClockInstants : t > now /\ t <= nextHourly /\ now' = t
    /\ UNCHANGED <<nextEv, wbVars, dbVars, published, inflight, aggVars,
                   sshVars, telVars, callVars>>

----------------------------------------------------------------------------
(* The event bus: a tokio broadcast channel.  published is the log of     *)
(* every value sent; the ring keeps its last RingCapacity entries and a    *)
(* receiver is a cursor into the log.                                      *)
MaxSsePolls == 4        \* polls of the SSE stream in one run

BUS_CAPACITY == 1000

RECURSIVE NextPowerOfTwo(_, _)
NextPowerOfTwo(n, p) == IF p >= n THEN p ELSE NextPowerOfTwo(n, 2 * p)

(* broadcast::channel rounds the requested capacity up to a power of two. *)
RingCapacity == NextPowerOfTwo(BUS_CAPACITY, 1)

PublishUnlessReceiverLags(bus, id) ==
    IF sse.pc = "open" /\ Len(bus) - sse.next + 1 >= RingCapacity
    THEN bus
    ELSE Append(bus, id)

(* EventBus::publish: Sender::send overwrites the oldest slot of the ring *)
(* and returns at once; its result is discarded.                           *)
publish(bus, id) == Append(bus, id)

(* The log position of the oldest value the ring still holds. *)
OldestRetained(bus) ==
    IF Len(bus) > RingCapacity THEN Len(bus) - RingCapacity + 1 ELSE 1

(* Receiver::recv at cursor next: a value, Lagged, or nothing yet. *)
RecvLagged(bus, next) == next < OldestRetained(bus)

RecvReady(bus, next) == next <= Len(bus) /\ ~RecvLagged(bus, next)

CursorStays(next) == next

CursorAfterValue(next) == next + 1

SseNone == [pc |-> "none", next |-> 0, delivered |-> <<>>, lagged |-> 0,
            lost |-> 0, polls |-> 0]

busFrame == <<now, nextEv, wbVars, dbVars, published, inflight, aggVars,
              sshVars, telVars, biCall, aggCall, apiVars, iac, ftp, http, boot, aggRun, statsCall>>

(* events_handler: subscribe; the receiver starts after the newest value. *)
SseConnect ==
    /\ sse.pc = "none"
    /\ sse' = [sse EXCEPT !.pc = "open", !.next = Len(published) + 1]
    /\ UNCHANGED busFrame

(* The response body polls the stream: BroadcastStream yields the next    *)
(* value, which filter_map turns into an "attack" event, or Lagged(n),     *)
(* which filter_map turns into nothing; the stream goes on in both cases.  *)
SsePoll ==
    /\ sse.pc = "open"
    /\ sse.polls < MaxSsePolls
    /\ IF RecvLagged(published, sse.next)
       THEN sse' = [sse EXCEPT !.next = OldestRetained(published),
                               !.polls = @ + 1,
                               !.lagged = @ + 1,
                               !.lost = @ + OldestRetained(published) - sse.next]
       ELSE /\ RecvReady(published, sse.next)
            /\ sse' = [sse EXCEPT
                         !.next = CursorAfterValue(@),
                         !.polls = @ + 1,
                         !.delivered = Append(@, [id |-> published[sse.next],
                                                  pos |-> sse.next,
                                                  lagged |-> sse.lagged])]
    /\ UNCHANGED busFrame

(* The client closes the connection: the stream and its receiver are      *)
(* dropped.                                                                *)
SseDisconnect ==
    /\ sse.pc = "open"
    /\ sse' = [sse EXCEPT !.pc = "closed"]
    /\ UNCHANGED busFrame

----------------------------------------------------------------------------
(* Producers that go through the write buffer. *)

RequestSizes == {40, 63}

(* UnboundedSender::send: the event is queued unless the receiver is gone *)
(* (the error is ignored by every caller).                                 *)
ChannelSend(q, e) == IF wbpc = "done" THEN q ELSE Append(q, e)

(* log_http_event: the task the logging middleware spawns per request. *)
HttpRequest ==
    /\ ~closed
    /\ nextEv <= MaxEvents
    /\ \E size \in RequestSizes :
         LET event == with_request_size(
                          AttackEvent(nextEv, now, "http", 80, "HTTP"), size)
         IN  /\ queue' = ChannelSend(queue, event)
             /\ published' = publish(published, event.id)
    /\ nextEv' = nextEv + 1
    /\ UNCHANGED <<now, closed, closeBacklog, buffer, wbpc, dequeued, attempted,
                   failed, dbVars, inflight, aggVars, sshVars, telVars, callVars>>

(* Shutdown: the last WriteSender is dropped. *)
DropSenders ==
    /\ ~closed
    /\ closed' = TRUE
    /\ closeBacklog' = Len(queue)
    /\ UNCHANGED <<now, nextEv, queue, buffer, wbpc, dequeued, attempted, failed,
                   dbVars, published, inflight, aggVars, sshVars, telVars, callVars>>

----------------------------------------------------------------------------
(* RequestLoggingMiddleware::call, with the task it spawns and the inner   *)
(* service it calls.  The runtime is multi-threaded: a spawned task may    *)
(* run on another worker at any moment after tokio::spawn returns.         *)

MaxHttpRequests == 2    \* requests that pass through the middleware

EXCLUDED_PATHS == {}

HttpPaths == {"/", "/api/stats"}

HttpIdle == [pc |-> "idle", path |-> "", size |-> 0, task |-> "none", event |-> None]

NeverSpawned(should_log) == "none"

(* The logging task after the `if should_log` block: spawned, or absent. *)
SpawnLogTask(should_log) == IF should_log THEN "spawned" ELSE "none"

httpFrame == <<now, closed, closeBacklog, buffer, wbpc, dequeued, attempted, failed,
               dbVars, inflight, aggVars, sshVars, telVars, biCall, aggCall, apiVars,
               sse, iac, ftp, boot, aggRun, statsCall>>

(* call, up to the end of the `if should_log` block. *)
MiddlewareCall(r) ==
    /\ ~closed
    /\ http[r].pc = "idle"
    /\ \E uri \in HttpPaths, request_size \in RequestSizes :
         LET should_log == uri \notin EXCLUDED_PATHS
         IN  http' = [http EXCEPT ![r] = [@ EXCEPT !.pc = "call_inner",
                                                   !.path = uri,
                                                   !.size = request_size,
                                                   !.task = SpawnLogTask(should_log)]]
    /\ UNCHANGED <<nextEv, queue, published, httpFrame>>

(* inner.call(request): the inner service is invoked and its future awaited. *)
InnerCall(r) ==
    /\ http[r].pc = "call_inner"
    /\ http' = [http EXCEPT ![r].pc = "awaiting"]
    /\ UNCHANGED <<nextEv, queue, published, httpFrame>>

(* The inner service's future completes: the response is returned.  The    *)
(* JoinHandle of the logging task was dropped unawaited.                    *)
InnerRespond(r) ==
    /\ http[r].pc = "awaiting"
    /\ http' = [http EXCEPT ![r].pc = "responded"]
    /\ UNCHANGED <<nextEv, queue, published, httpFrame>>

(* The spawned task runs log_http_event. *)
LogHttpTask(r) ==
    /\ http[r].task = "spawned"
    /\ LET event == with_request_size(
                        AttackEvent(nextEv, now, "http", 80, "HTTP"), http[r].size)
       IN  /\ queue' = ChannelSend(queue, event)
           /\ published' = publish(published, event.id)
           /\ http' = [http EXCEPT ![r] = [@ EXCEPT !.task = "done",
                                                     !.event = Some(event)]]
    /\ nextEv' = nextEv + 1
    /\ UNCHANGED httpFrame

NextHttp ==
    \/ \E r \in 1..MaxHttpRequests : MiddlewareCall(r)
    \/ \E r \in 1..MaxHttpRequests : InnerCall(r)
    \/ \E r \in 1..MaxHttpRequests : InnerRespond(r)
    \/ \E r \in 1..MaxHttpRequests : LogHttpTask(r)

----------------------------------------------------------------------------
(* main, statement by statement, and Config::load / Config::validate. *)

ValidLevels == {<<116, 114, 97, 99, 101>>,
                <<100, 101, 98, 117, 103>>,
                <<105, 110, 102, 111>>,
                <<119, 97, 114, 110>>,
                <<101, 114, 114, 111, 114>>}

(* The configurations the file and the environment may produce; level is  *)
(* "info", "INFO" or "loud".                                                *)
Configs ==
    [http_port : {0, 8080},
     host      : {"", "0.0.0.0"},
     url       : {"", "sqlite:honeypot.db"},
     driver    : {"sqlite", "postgres", "mysql"},
     tls_cert  : {"", "cert.pem"},
     tls_key   : {"", "key.pem"},
     level     : {<<105, 110, 102, 111>>, <<73, 78, 70, 79>>, <<108, 111, 117, 100>>}]

(* Config::validate: TRUE for Ok(()), FALSE where it bails. *)
validate(self) ==
    /\ self.http_port # 0
    /\ self.host # ""
    /\ self.url # ""
    /\ self.driver \in {"sqlite", "postgres"}
    /\ (self.tls_cert # "") = (self.tls_key # "")
    /\ ToLowercase(self.level) \in ValidLevels

BootStart == [pc |-> "load", config |-> None, loaded |-> FALSE, connected |-> FALSE,
              migrated |-> FALSE, started |-> {}]

ErrorIgnored(ok, next) == next

(* The `?` operator: main returns the error, or goes on. *)
Try(ok, next) == IF ok THEN next ELSE "aborted"

bootFrame == <<now, nextEv, wbVars, dbVars, published, inflight, aggVars, sshVars,
               telVars, biCall, aggCall, apiVars, sse, iac, http, ftp, aggRun, statsCall>>

(* Config::load: the sources are built and deserialized, then validated. *)
MainLoadConfig ==
    /\ boot.pc = "load"
    /\ \E built \in BOOLEAN, config \in Configs :
         LET ok == built /\ validate(config)
         IN  boot' = [boot EXCEPT !.pc = Try(ok, "db_new"),
                                  !.config = IF built THEN Some(config) ELSE None,
                                  !.loaded = ok]
    /\ UNCHANGED bootFrame

(* Database::new *)
MainDatabaseNew ==
    /\ boot.pc = "db_new"
    /\ \E ok \in BOOLEAN :
         boot' = [boot EXCEPT !.pc = Try(ok, "migrate"), !.connected = ok]
    /\ UNCHANGED bootFrame

(* db.run_migrations *)
MainRunMigrations ==
    /\ boot.pc = "migrate"
    /\ \E ok \in BOOLEAN :
         boot' = [boot EXCEPT !.pc = Try(ok, "spawn"), !.migrated = ok]
    /\ UNCHANGED bootFrame

(* GeoIp::new, the broadcast channel, start_write_buffer and the task     *)
(* that runs handlers::start_all.                                           *)
MainStartHandlers ==
    /\ boot.pc = "spawn"
    /\ boot' = [boot EXCEPT !.pc = "background",
                            !.started = @ \cup {"write_buffer", "handlers"}]
    /\ UNCHANGED bootFrame

(* web::start_background_tasks: the backfill and the hourly task. *)
MainStartBackgroundTasks ==
    /\ boot.pc = "background"
    /\ boot' = [boot EXCEPT !.pc = "warm",
                            !.started = @ \cup {"backfill", "hourly"}]
    /\ UNCHANGED bootFrame

(* web::warm_cache *)
MainWarmCache ==
    /\ boot.pc = "warm"
    /\ boot' = [boot EXCEPT !.pc = "serve"]
    /\ UNCHANGED bootFrame

(* web::start_server: it serves, or returns an error that ends main. *)
MainStartServer ==
    /\ boot.pc = "serve"
    /\ \E ok \in BOOLEAN :
         boot' = [boot EXCEPT !.pc = Try(ok, "serving"),
                              !.started = IF ok THEN @ \cup {"web"} ELSE @]
    /\ UNCHANGED bootFrame

NextMain ==
    \/ MainLoadConfig
    \/ MainDatabaseNew
    \/ MainRunMigrations
    \/ MainStartHandlers
    \/ MainStartBackgroundTasks
    \/ MainWarmCache
    \/ MainStartServer

----------------------------------------------------------------------------
(* write_buffer_task. *)

BufferPushFront(buf, e) == <<e>> \o buf

BufferPush(buf, e) == Append(buf, e)

(* rx.recv() returns None: every sender is gone and the queue is empty. *)
ChannelDrainedOnClose == closed

ChannelDrained == closed /\ queue = <<>>

BatchFullNever(buf) == FALSE

(* if buffer.len() >= BATCH_SIZE, after the push. *)
BatchFull(buf) == Len(buf) >= BATCH_SIZE

TickShouldFlushWhenFull(buf) == Len(buf) >= BATCH_SIZE

TickShouldFlush(buf) == buf # <<>>

BufferKeptOnFailure(buf, ok) == IF ok THEN <<>> ELSE buf

BufferNeverCleared(buf, ok) == buf

(* flush_batch ends with buffer.clear(), whatever the result. *)
BufferAfterFlush(buf, ok) == <<>>

Flushing == wbpc \in {"flush_full", "flush_close", "flush_tick"}

(* select!: rx.recv() returned Some(e). *)
WbRecvSome ==
    /\ wbpc = "select"
    /\ queue # <<>>
    /\ LET e == Head(queue)
           b == BufferPush(buffer, e)
       IN  /\ queue' = Tail(queue)
           /\ buffer' = b
           /\ dequeued' = Append(dequeued, e.id)
           /\ IF BatchFull(b)
              THEN wbpc' = "flush_full" /\ attempted' = attempted \cup Ids(b)
              ELSE UNCHANGED <<wbpc, attempted>>
    /\ UNCHANGED <<now, nextEv, closed, closeBacklog, failed, dbVars, published,
                   inflight, aggVars, sshVars, telVars, callVars>>

(* select!: rx.recv() returned None. *)
WbRecvNone ==
    /\ wbpc = "select"
    /\ ChannelDrained
    /\ IF buffer # <<>>
       THEN wbpc' = "flush_close" /\ attempted' = attempted \cup Ids(buffer)
       ELSE wbpc' = "done" /\ UNCHANGED attempted
    /\ UNCHANGED <<now, nextEv, queue, closed, closeBacklog, buffer, dequeued,
                   failed, dbVars, published, inflight, aggVars, sshVars, telVars,
                   callVars>>

(* select!: flush_interval.tick() fired. *)
WbTick ==
    /\ wbpc = "select"
    /\ IF TickShouldFlush(buffer)
       THEN wbpc' = "flush_tick" /\ attempted' = attempted \cup Ids(buffer)
       ELSE UNCHANGED <<wbpc, attempted>>
    /\ UNCHANGED <<now, nextEv, queue, closed, closeBacklog, buffer, dequeued,
                   failed, dbVars, published, inflight, aggVars, sshVars, telVars,
                   callVars>>

(* flush_batch: db.batch_insert_events(buffer) completes, then the rest  *)
(* of the branch that called it.                                          *)
WbFlushDone ==
    /\ Flushing
    /\ \E failAt \in FailPoints(buffer) :
         LET res == BatchInsertEvents(requests, buffer, failAt)
         IN  /\ requests' = res.rows
             /\ failed' = IF res.ok THEN failed ELSE failed \cup Ids(buffer)
             /\ buffer' = BufferAfterFlush(buffer, res.ok)
    /\ wbpc' = IF wbpc = "flush_close" THEN "done" ELSE "select"
    /\ UNCHANGED <<now, nextEv, queue, closed, closeBacklog, dequeued, attempted,
                   stats_daily, published, inflight, aggVars, sshVars, telVars,
                   callVars>>

----------------------------------------------------------------------------
(* Handlers that call db.insert_event themselves. *)

TcpPayloads == {None, Some(<<71, 255>>)}

(* Database::insert_event: a single-row INSERT on a pooled connection. *)
InsertEvent(rows, e, by, ok) == IF ok THEN InsertRow(rows, e, by) ELSE rows

(* tcp::start, the task spawned per connection, up to db.insert_event. *)
TcpConnection ==
    /\ nextEv <= MaxEvents
    /\ \E read \in TcpPayloads :
         LET e0    == AttackEvent(nextEv, now, "tcp", 3306, "Connection")
             event == IF read # None THEN with_payload(e0, read[1]) ELSE e0
         IN  inflight' = inflight \cup {[ev |-> event, by |-> "tcp"]}
    /\ nextEv' = nextEv + 1
    /\ UNCHANGED <<now, wbVars, dbVars, published, aggVars, sshVars, telVars, callVars>>

(* icmp::start, the task spawned per Echo Request, up to db.insert_event. *)
IcmpEchoRequest ==
    /\ nextEv <= MaxEvents
    /\ inflight' = inflight \cup
           {[ev |-> AttackEvent(nextEv, now, "icmp", 0, "ICMP Echo Request"),
             by |-> "icmp"]}
    /\ nextEv' = nextEv + 1
    /\ UNCHANGED <<now, wbVars, dbVars, published, aggVars, sshVars, telVars, callVars>>

PublishOnlyStored(bus, id, ok) == IF ok THEN publish(bus, id) ELSE bus

(* if let Err(e) = db.insert_event(&event).await { warn!(..) } and then   *)
(* event_bus.publish(event): the result of the insert only decides the     *)
(* warning.                                                                 *)
PublishAfterInsert(bus, id, ok) == publish(bus, id)

(* db.insert_event returns to the handler that called it (a failure is    *)
(* logged), which then publishes the event and ends.                       *)
InsertEventDone ==
    /\ \E p \in inflight, ok \in BOOLEAN :
         /\ requests' = InsertEvent(requests, p.ev, p.by, ok)
         /\ published' = PublishAfterInsert(published, p.ev.id, ok)
         /\ inflight' = inflight \ {p}
         /\ tel' = IF p.by = "telnet" THEN [tel EXCEPT !.pc = "done"] ELSE tel
         /\ ftp' = IF p.by = "ftp" THEN [ftp EXCEPT !.pc = "done"] ELSE ftp
    /\ UNCHANGED <<now, nextEv, wbVars, stats_daily, aggVars, sshVars, telSessions,
                   callRest>>

----------------------------------------------------------------------------
(* handle_telnet_session.  read_telnet_line is taken by its result: a     *)
(* completed line, or None on EOF, read error and the 30 s line timeout.   *)

MaxTelLines == 3        \* lines one Telnet session reads

TelLines == {W_root, W_hunter, W_ls, W_exit}

TelIdle == [pc |-> "idle", state |-> 0, username |-> <<>>, password |-> <<>>,
            commands |-> <<>>, lines |-> 0, event |-> None,
            read |-> <<>>, out |-> <<>>]

TelnetAccept ==
    /\ tel.pc \in {"idle", "done"}
    /\ telSessions < MaxTelSessions
    /\ telSessions' = telSessions + 1
    /\ tel' = [TelIdle EXCEPT !.pc = "banner"]
    /\ UNCHANGED <<now, nextEv, wbVars, dbVars, published, inflight, aggVars,
                   sshVars, callVars>>

(* The banner, the login prompt and the flush; a failed write returns. *)
TelnetBanner ==
    /\ tel.pc = "banner"
    /\ \E ok \in BOOLEAN :
         tel' = [tel EXCEPT !.pc = IF ok THEN "loop" ELSE "done",
                            !.out = IF ok THEN <<"banner", "login: ">> ELSE @]
    /\ UNCHANGED <<now, nextEv, wbVars, dbVars, published, inflight, aggVars,
                   sshVars, telSessions, callVars>>

CommandLimitNever(cmds) == FALSE

(* handle_telnet_session: commands.len() >= 20 *)
CommandLimitReached(cmds) == Len(cmds) >= TELNET_MAX_COMMANDS

TelnetIsExit(input) == FirstToken(input) \in {W_exit, W_quit, W_logout}

(* One turn of the session loop on a completed line. *)
TelnetLine ==
    /\ tel.pc = "loop"
    /\ tel.lines < MaxTelLines
    /\ \E input \in TelLines, wrote \in BOOLEAN :
         LET t == [tel EXCEPT !.lines = @ + 1, !.read = Append(@, input)]
         IN  tel' =
               CASE tel.state = 0 ->
                      [t EXCEPT !.username = input,
                                !.state = IF wrote THEN 1 ELSE 0,
                                !.out = IF wrote THEN Append(@, "Password: ") ELSE @,
                                !.pc = IF wrote THEN "loop" ELSE "emit"]
                 [] tel.state = 1 ->
                      [t EXCEPT !.password = input,
                                !.state = IF wrote THEN 2 ELSE 1,
                                !.out = IF wrote THEN @ \o <<"welcome", "prompt">>
                                        ELSE @,
                                !.pc = IF wrote THEN "loop" ELSE "emit"]
                 [] OTHER ->
                      LET cmds == Append(tel.commands, input)
                      IN  [t EXCEPT !.commands = cmds,
                                    !.out = IF TelnetIsExit(input) THEN @
                                            ELSE @ \o <<"response", "prompt">>,
                                    !.pc = IF \/ TelnetIsExit(input)
                                              \/ CommandLimitReached(cmds)
                                           THEN "emit" ELSE "loop"]
    /\ UNCHANGED <<now, nextEv, wbVars, dbVars, published, inflight, aggVars,
                   sshVars, telSessions, callVars>>

(* read_telnet_line returned None, or the 120 s session timeout dropped   *)
(* the loop: the session goes on to build its event.                       *)
TelnetLoopEnds ==
    /\ tel.pc = "loop"
    /\ tel' = [tel EXCEPT !.pc = "emit"]
    /\ UNCHANGED <<now, nextEv, wbVars, dbVars, published, inflight, aggVars,
                   sshVars, telSessions, callVars>>

TelnetEvent(id, t, ts) ==
    LET e0 == AttackEvent(id, ts, "telnet", 23,
                  IF t.username # <<>> THEN "Telnet login" ELSE "Telnet connection")
        e1 == IF t.username # <<>> THEN with_credentials(e0, t.username, t.password)
              ELSE e0
    IN  IF t.commands # <<>> THEN with_payload(e1, Join(t.commands, 10)) ELSE e1

(* The tail of the session: the event is built and handed to             *)
(* db.insert_event.                                                        *)
TelnetEmit ==
    /\ tel.pc = "emit"
    /\ LET event == TelnetEvent(nextEv, tel, now)
       IN  /\ inflight' = inflight \cup {[ev |-> event, by |-> "telnet"]}
           /\ tel' = [tel EXCEPT !.pc = "insert", !.event = Some(event)]
    /\ nextEv' = nextEv + 1
    /\ UNCHANGED <<now, wbVars, dbVars, published, aggVars, sshVars, telSessions,
                   callVars>>

----------------------------------------------------------------------------
(* The daily rollup. *)

RECURSIVE SortAsc(_)
----------------------------------------------------------------------------
(* handle_ftp_session *)

MaxFtpLines == 3        \* lines one FTP session reads

V_USER == <<85, 83, 69, 82>>
V_PASS == <<80, 65, 83, 83>>
V_QUIT == <<81, 85, 73, 84>>

(* "USER root", "pass hunter", "PASS", "QUIT", "quit now", "SYST", each   *)
(* with its CR LF, and an empty line.                                      *)
FtpLines ==
    {<<85, 83, 69, 82, 32, 114, 111, 111, 116, 13, 10>>,
     <<112, 97, 115, 115, 32, 104, 117, 110, 116, 101, 114, 13, 10>>,
     <<80, 65, 83, 83, 13, 10>>,
     <<81, 85, 73, 84, 13, 10>>,
     <<113, 117, 105, 116, 32, 110, 111, 119, 13, 10>>,
     <<83, 89, 83, 84, 13, 10>>,
     <<13, 10>>}

UpperChar(c) == IF c >= 97 /\ c <= 122 THEN c - 32 ELSE c

ToUppercase(s) == [i \in 1..Len(s) |-> UpperChar(s[i])]

(* cmd.splitn(2, ' '): the part before the first space, and the rest. *)
SplitN2(cmd) ==
    LET spaces == {i \in 1..Len(cmd) : cmd[i] = 32}
    IN  IF spaces = {} THEN <<cmd>>
        ELSE LET i == CHOOSE k \in spaces : \A j \in spaces : k <= j
             IN  <<SubSeq(cmd, 1, i - 1), SubSeq(cmd, i + 1, Len(cmd))>>

FtpCommand(cmd) == ToUppercase(SplitN2(cmd)[1])

FtpArg(cmd) == IF Len(SplitN2(cmd)) >= 2 THEN SplitN2(cmd)[2] ELSE <<>>

(* The reply code written for a command. *)
FtpReply(command) ==
    CASE command = V_USER -> <<331>>
      [] command = V_PASS -> <<230>>
      [] command = V_QUIT -> <<221>>
      [] command = <<83, 89, 83, 84>> -> <<215>>
      [] command = <<80, 87, 68>> -> <<257>>
      [] command \in {<<76, 73, 83, 84>>, <<78, 76, 83, 84>>} -> <<150, 226>>
      [] command = <<84, 89, 80, 69>> -> <<200>>
      [] command = <<80, 65, 83, 86>> -> <<227>>
      [] OTHER -> <<502>>

(* The commands whose match arm leaves the read loop. *)
EndsSession(command) == command \in {V_PASS, V_QUIT}

FtpIdle == [pc |-> "idle", username |-> <<>>, password |-> <<>>, commands |-> <<>>,
            lines |-> 0, out |-> <<>>, ended |-> "", event |-> None]

ftpFrame == <<now, wbVars, dbVars, published, aggVars, sshVars, telVars, callRest>>

(* start: a connection is accepted and its session task writes the banner. *)
FtpAccept ==
    /\ ftp.pc = "idle"
    /\ ftp' = [ftp EXCEPT !.pc = "loop", !.out = <<220>>]
    /\ UNCHANGED <<nextEv, inflight, ftpFrame>>

(* One turn of the read loop on a line read. *)
FtpLine ==
    /\ ftp.pc = "loop"
    /\ ftp.lines < MaxFtpLines
    /\ \E line \in FtpLines :
         LET cmd     == Trim(line)
             command == FtpCommand(cmd)
             arg     == FtpArg(cmd)
         IN  ftp' = [ftp EXCEPT
                       !.lines = @ + 1,
                       !.commands = Append(@, cmd),
                       !.username = IF command = V_USER THEN arg ELSE @,
                       !.password = IF command = V_PASS THEN arg ELSE @,
                       !.out = @ \o FtpReply(command),
                       !.ended = IF EndsSession(command) THEN "command" ELSE @,
                       !.pc = IF EndsSession(command) THEN "emit" ELSE "loop"]
    /\ UNCHANGED <<nextEv, inflight, ftpFrame>>

(* read_line returned Ok(0) or an error, or the 60 s timeout dropped the  *)
(* loop.                                                                   *)
FtpLoopEnds ==
    /\ ftp.pc = "loop"
    /\ \E why \in {"eof", "error", "timeout"} :
         ftp' = [ftp EXCEPT !.pc = "emit", !.ended = why]
    /\ UNCHANGED <<nextEv, inflight, ftpFrame>>

FtpEvent(id, f, ts) ==
    LET e0 == AttackEvent(id, ts, "ftp", 21,
                  IF f.username # <<>> THEN "FTP login" ELSE "FTP connection")
        e1 == IF f.username # <<>> THEN with_credentials(e0, f.username, f.password)
              ELSE e0
    IN  IF f.commands # <<>> THEN with_payload(e1, Join(f.commands, 10)) ELSE e1

(* The tail of the session: the event is built and handed to             *)
(* db.insert_event; InsertEventDone publishes it.                          *)
FtpEmit ==
    /\ ftp.pc = "emit"
    /\ LET event == FtpEvent(nextEv, ftp, now)
       IN  /\ inflight' = inflight \cup {[ev |-> event, by |-> "ftp"]}
           /\ ftp' = [ftp EXCEPT !.pc = "insert", !.event = Some(event)]
    /\ nextEv' = nextEv + 1
    /\ UNCHANGED ftpFrame

----------------------------------------------------------------------------
(* read_telnet_line, byte by byte. *)

MaxTelBytes == 6        \* bytes one Telnet connection sends

IAC == 255
DONT == 254
DO == 253
WONT == 252
WILL == 251
SB == 250
SE == 240

TelBytes == {65, 10, IAC, SB, SE, WILL}

(* The locals at the start of a call; input and passed are ghosts: every  *)
(* byte the connection has sent, and every byte pushed to a result.        *)
IacStart == [in_iac |-> FALSE, in_subneg |-> FALSE, option |-> FALSE,
             result |-> <<>>, lines |-> 0, input |-> <<>>, passed |-> <<>>]

(* One iteration of the read loop on the byte read. *)
ReadByte(st, byte) ==
    IF st.option
    THEN [st EXCEPT !.option = FALSE]
    ELSE IF st.in_subneg
    THEN IF byte = IAC THEN [st EXCEPT !.in_iac = TRUE]
         ELSE IF st.in_iac /\ byte = SE
         THEN [st EXCEPT !.in_subneg = FALSE, !.in_iac = FALSE]
         ELSE [st EXCEPT !.in_iac = FALSE]
    ELSE IF st.in_iac
    THEN CASE byte = IAC ->
                [st EXCEPT !.result = Append(@, 255), !.passed = Append(@, 255),
                           !.in_iac = FALSE]
           [] byte \in {WILL, WONT, DO, DONT} ->
                [st EXCEPT !.in_iac = FALSE, !.option = TRUE]
           [] byte = SB ->
                [st EXCEPT !.in_subneg = TRUE, !.in_iac = FALSE]
           [] OTHER -> [st EXCEPT !.in_iac = FALSE]
    ELSE IF byte = IAC THEN [st EXCEPT !.in_iac = TRUE]
    ELSE IF byte \in {10, 13}
    THEN IF st.result = <<>> THEN st
         ELSE [IacStart EXCEPT !.lines = st.lines + 1, !.input = st.input,
                               !.passed = st.passed]
    ELSE IF byte >= 32 /\ byte < 127
    THEN [st EXCEPT !.result = Append(@, byte), !.passed = Append(@, byte)]
    ELSE st

(* socket.read returns the next byte of the connection. *)
TelnetReadByte ==
    /\ Len(iac.input) < MaxTelBytes
    /\ \E byte \in TelBytes :
         iac' = ReadByte([iac EXCEPT !.input = Append(@, byte)], byte)
    /\ UNCHANGED <<now, nextEv, wbVars, dbVars, published, inflight, aggVars,
                   sshVars, telVars, biCall, aggCall, apiVars, sse, ftp, http, boot, aggRun, statsCall>>

SortAsc(S) ==
    IF S = {} THEN <<>>
    ELSE LET m == CHOOSE x \in S : \A y \in S : x <= y
         IN  <<m>> \o SortAsc(S \ {m})

RECURSIVE SumSizes(_)
SumSizes(rows) ==
    IF rows = <<>> THEN 0 ELSE Head(rows).ev.request_size + SumSizes(Tail(rows))

(* SELECT ... FROM requests WHERE timestamp >= lo AND timestamp < hi *)
RowsBetween(rows, lo, hi) ==
    SelectSeq(rows, LAMBDA r : r.ev.timestamp >= lo /\ r.ev.timestamp < hi)

ServiceCounts(rows) ==
    [s \in {rows[i].ev.service : i \in 1..Len(rows)} |->
        Len(SelectSeq(rows, LAMBDA r : r.ev.service = s))]

RollupBuckets(stats) == {r.day_bucket : r \in stats}

InsertWithoutConflictClause(stats, row) == stats \cup {row}

(* INSERT ... ON CONFLICT(day_bucket) DO UPDATE: day_bucket is the primary *)
(* key of stats_daily.                                                      *)
Upsert(stats, row) == {r \in stats : r.day_bucket # row.day_bucket} \cup {row}

(* The exists check of aggregate_day: the day has a rollup row. *)
AlreadyAggregatedNever(stats, day_bucket) == FALSE

AlreadyAggregated(stats, day_bucket) == day_bucket \in RollupBuckets(stats)

(* Database::aggregate_day reaches its upsert: the day has no rollup row  *)
(* yet and the requests table has rows of that day.                        *)
AggregateDayWrites(rows, stats, day_bucket) ==
    /\ ~AlreadyAggregated(stats, day_bucket)
    /\ Len(RowsBetween(rows, day_bucket, day_bucket + DAY_MS)) # 0

(* Database::aggregate_day *)
AggregateDay(rows, stats, day_bucket) ==
    LET day == RowsBetween(rows, day_bucket, day_bucket + DAY_MS)
    IN  IF AggregateDayWrites(rows, stats, day_bucket)
        THEN Upsert(stats, [day_bucket |-> day_bucket,
                            total_requests |-> Len(day),
                            total_bytes |-> SumSizes(day),
                            service_counts |-> ServiceCounts(day)])
        ELSE stats

GetDaysNeedingRollupAnyDay(rows, stats, t) ==
    SortAsc({ts_to_day_bucket(rows[i].ev.timestamp) : i \in 1..Len(rows)}
            \ RollupBuckets(stats))

GetDaysLatestFirst(rows, stats, t) ==
    LET s == SortAsc({ts_to_day_bucket(rows[i].ev.timestamp) :
                         i \in {j \in 1..Len(rows) : rows[j].ev.timestamp < TodayStart(t)}}
                     \ RollupBuckets(stats))
    IN  [i \in 1..Len(s) |-> s[Len(s) + 1 - i]]

(* Database::get_days_needing_rollup *)
GetDaysNeedingRollup(rows, stats, t) ==
    SortAsc({ts_to_day_bucket(rows[i].ev.timestamp) :
                i \in {j \in 1..Len(rows) : rows[j].ev.timestamp < TodayStart(t)}}
            \ RollupBuckets(stats))

(* The hourly task: one turn of its loop. *)
HourlyTick ==
    /\ now >= nextHourly
    /\ nextHourly' = nextHourly + HOUR_MS
    /\ LET yesterday == TodayStart(now) - DAY_MS
       IN  \E ok \in BOOLEAN :
             stats_daily' = IF ok THEN AggregateDay(requests, stats_daily, yesterday)
                            ELSE stats_daily
    /\ UNCHANGED <<now, nextEv, wbVars, requests, published, inflight, backfill,
                   sshVars, telVars, callVars>>

(* The backfill task before its query.  listed, calls, errors and had are *)
(* history: whether the query returned, the days aggregate_day was called  *)
(* for, the calls that returned an error, and the day buckets before the   *)
(* current day that had rows when the query ran.                           *)
BackfillIdle == [pc |-> "start", days |-> <<>>, listed |-> FALSE, calls |-> <<>>,
                 errors |-> 0, had |-> {}]

CompletedDaysWithRows(rows, t) ==
    {ts_to_day_bucket(rows[i].ev.timestamp) :
        i \in {j \in 1..Len(rows) : rows[j].ev.timestamp < TodayStart(t)}}

(* The backfill task after one aggregate_day call has returned. *)
BackfillAfterCall(err) ==
    [backfill EXCEPT !.pc = IF Len(backfill.days) = 1 THEN "done" ELSE "run",
                     !.days = Tail(@),
                     !.errors = @ + (IF err THEN 1 ELSE 0)]

(* The backfill task: the days to aggregate are read once. *)
BackfillStart ==
    /\ backfill.pc = "start"
    /\ \E ok \in BOOLEAN :
         backfill' =
             IF ok
             THEN LET days == GetDaysNeedingRollup(requests, stats_daily, now)
                  IN  [backfill EXCEPT !.pc = IF days = <<>> THEN "done" ELSE "run",
                                       !.days = days,
                                       !.listed = TRUE,
                                       !.had = CompletedDaysWithRows(requests, now)]
             ELSE [backfill EXCEPT !.pc = "done"]
    /\ UNCHANGED <<now, nextEv, wbVars, dbVars, published, inflight, nextHourly,
                   sshVars, telVars, callVars>>

(* The backfill task: aggregate_day for the next day of its list. *)
BackfillStep ==
    /\ backfill.pc = "run"
    /\ \E ok \in BOOLEAN :
         /\ stats_daily' = IF ok
                           THEN AggregateDay(requests, stats_daily, Head(backfill.days))
                           ELSE stats_daily
         /\ backfill' = [BackfillAfterCall(~ok) EXCEPT
                            !.calls = Append(@, Head(backfill.days))]
    /\ UNCHANGED <<now, nextEv, wbVars, requests, published, inflight, nextHourly,
                   sshVars, telVars, callVars>>

(* The days aggregate_day is called for directly. *)
AggDays == {0, DAY_MS, 2 * DAY_MS}

(* Two calls of aggregate_day for the same bucket, one after the other,   *)
(* both returning Ok.                                                       *)
AggregateDayTwice ==
    /\ \E d \in AggDays :
         LET first  == AggregateDay(requests, stats_daily, d)
             second == AggregateDay(requests, first, d)
         IN  /\ stats_daily' = second
             /\ aggCall' = [called |-> TRUE, day |-> d, first |-> first,
                            second |-> second,
                            wrote |-> AggregateDayWrites(requests, first, d)]
    /\ UNCHANGED <<now, nextEv, wbVars, requests, published, inflight, aggVars,
                   sshVars, telVars, biCall, apiVars, sse, iac, ftp, http, boot, aggRun, statsCall>>

----------------------------------------------------------------------------
(* Database::aggregate_day, statement by statement: every query is its    *)
(* own await on the pool, so inserts and the other task's statements run   *)
(* between them.  Of the grouped queries the service one is kept; the      *)
(* others feed columns the model's rollup row does not carry.  A statement *)
(* that fails returns the error before anything is written: the first and  *)
(* the last statement stand for the failures.                               *)

MaxAggEvents == 1       \* events handlers emit while the aggregation tasks run

AggTasks == {"backfill", "hourly"}

(* result is history: the row the task's last completed call upserted. *)
AggIdle == [pc |-> "idle", day |-> 0, total |-> 0, total_bytes |-> 0,
            service_counts |-> <<>>, result |-> None]

aggRunFrame == <<now, nextEv, wbVars, requests, published, inflight, sshVars, telVars,
                 biCall, aggCall, apiVars, sse, iac, http, boot, ftp, statsCall>>

(* What the call's return does to its caller: the backfill loop goes on   *)
(* to its next day, the hourly loop to its next tick.                      *)
CallerAfter(c, err) == IF c = "backfill" THEN BackfillAfterCall(err) ELSE backfill

(* The exists check, with the day the caller passes. *)
AggExistsCheck(c, day, caller) ==
    \E ok \in BOOLEAN :
       IF ok /\ ~AlreadyAggregated(stats_daily, day)
       THEN /\ aggRun' = [aggRun EXCEPT ![c] = [@ EXCEPT !.pc = "total", !.day = day]]
            /\ backfill' = caller
       ELSE /\ aggRun' = aggRun
            /\ backfill' = IF c = "backfill"
                            THEN [BackfillAfterCall(~ok) EXCEPT !.calls = caller.calls]
                            ELSE backfill

(* The hourly task: interval.tick() returns and aggregate_day(yesterday)  *)
(* runs its exists check.                                                  *)
HourlyAggregateBegin ==
    /\ aggRun["hourly"].pc = "idle"
    /\ now >= nextHourly
    /\ nextHourly' = nextHourly + HOUR_MS
    /\ AggExistsCheck("hourly", TodayStart(now) - DAY_MS, backfill)
    /\ UNCHANGED <<stats_daily, aggRunFrame>>

(* The backfill task: aggregate_day for the next day of its list runs its *)
(* exists check.                                                           *)
BackfillAggregateBegin ==
    /\ aggRun["backfill"].pc = "idle"
    /\ backfill.pc = "run"
    /\ AggExistsCheck("backfill", Head(backfill.days),
                      [backfill EXCEPT !.calls = Append(@, Head(backfill.days))])
    /\ UNCHANGED <<stats_daily, nextHourly, aggRunFrame>>

(* SELECT COUNT( * ), COALESCE(SUM(request_size), 0); Ok(()) on a total of 0. *)
AggTotalQuery(c) ==
    /\ aggRun[c].pc = "total"
    /\ LET day   == RowsBetween(requests, aggRun[c].day, aggRun[c].day + DAY_MS)
           total == Len(day)
       IN  IF total # 0
             THEN /\ aggRun' = [aggRun EXCEPT ![c] = [@ EXCEPT !.pc = "service",
                                                               !.total = total,
                                                               !.total_bytes = SumSizes(day)]]
                  /\ backfill' = backfill
             ELSE /\ aggRun' = [aggRun EXCEPT ![c].pc = "idle"]
                  /\ backfill' = CallerAfter(c, FALSE)
    /\ UNCHANGED <<stats_daily, nextHourly, aggRunFrame>>

(* SELECT service, COUNT( * ) ... GROUP BY service *)
AggServiceQuery(c) ==
    /\ aggRun[c].pc = "service"
    /\ LET day == RowsBetween(requests, aggRun[c].day, aggRun[c].day + DAY_MS)
       IN  aggRun' = [aggRun EXCEPT ![c] = [@ EXCEPT !.pc = "upsert",
                                                    !.service_counts = ServiceCounts(day)]]
    /\ UNCHANGED <<backfill, stats_daily, nextHourly, aggRunFrame>>

(* INSERT ... ON CONFLICT(day_bucket) DO UPDATE SET ... = excluded. ... *)
AggUpsert(c) ==
    /\ aggRun[c].pc = "upsert"
    /\ \E ok \in BOOLEAN :
         LET row == [day_bucket |-> aggRun[c].day,
                     total_requests |-> aggRun[c].total,
                     total_bytes |-> aggRun[c].total_bytes,
                     service_counts |-> aggRun[c].service_counts]
         IN  /\ stats_daily' = IF ok THEN Upsert(stats_daily, row) ELSE stats_daily
             /\ aggRun' = [aggRun EXCEPT ![c] = [@ EXCEPT !.pc = "idle",
                                 !.result = IF ok THEN Some(row) ELSE @]]
             /\ backfill' = CallerAfter(c, ~ok)
    /\ UNCHANGED <<requests, nextHourly, now, nextEv, wbVars, published, inflight,
                   sshVars, telVars, biCall, aggCall, apiVars, sse, iac, http, boot, ftp,
                   statsCall>>

----------------------------------------------------------------------------
(* The SSH session handler. *)

W_id == <<105, 100>>
W_pwd == <<112, 119, 100>>
W_hostname == <<104, 111, 115, 116, 110, 97, 109, 101>>
W_uname == <<117, 110, 97, 109, 101>>
W_uptime == <<117, 112, 116, 105, 109, 101>>
W_w == <<119>>
W_cat == <<99, 97, 116>>
W_ps == <<112, 115>>
W_netstat == <<110, 101, 116, 115, 116, 97, 116>>
W_ss == <<115, 115>>
W_ifconfig == <<105, 102, 99, 111, 110, 102, 105, 103>>
W_ip == <<105, 112>>
W_curl == <<99, 117, 114, 108>>
W_wget == <<119, 103, 101, 116>>
W_echo == <<101, 99, 104, 111>>
W_help == <<104, 101, 108, 112>>
W_history == <<104, 105, 115, 116, 111, 114, 121>>
W_env == <<101, 110, 118>>
W_printenv == <<112, 114, 105, 110, 116, 101, 110, 118>>
S_dash_a == <<45, 97>>
S_etc == <<47, 101, 116, 99>>
S_dash_la == <<45, 108, 97>>
S_dash_al == <<45, 97, 108>>
S_etc_passwd == <<47, 101, 116, 99, 47, 112, 97, 115, 115, 119, 100>>
S_etc_shadow == <<47, 101, 116, 99, 47, 115, 104, 97, 100, 111, 119>>
S_addr == <<97, 100, 100, 114>>
S_a == <<97>>

Contains(s, sub) ==
    \E i \in 1..(Len(s) - Len(sub) + 1) : SubSeq(s, i, i + Len(sub) - 1) = sub

(* str::strip_prefix(p).unwrap_or("") *)
StripPrefixOrEmpty(s, p) ==
    IF Len(s) >= Len(p) /\ SubSeq(s, 1, Len(p)) = p
    THEN SubSeq(s, Len(p) + 1, Len(s)) ELSE <<>>

(* What the server writes: a canned text, or a text built from the input. *)
Text(t) == [text |-> t, arg |-> <<>>]
Built(t, a) == [text |-> t, arg |-> a]
EmptyText == Text("")

(* SshSession::generate_fake_output *)
generate_fake_output(cmd) ==
    LET cmd_lower == ToLowercase(Trim(cmd))
        base_cmd  == FirstToken(cmd_lower)
    IN  CASE base_cmd = W_whoami -> Text("root\r\n")
          [] base_cmd = W_id -> Text("uid=0(root) gid=0(root) groups=0(root)\r\n")
          [] base_cmd = W_pwd -> Text("/root\r\n")
          [] base_cmd = W_hostname -> Text("honeypot\r\n")
          [] base_cmd = W_uname ->
                 IF Contains(cmd_lower, S_dash_a) THEN Text("Linux honeypot 5.15.0\r\n")
                 ELSE Text("Linux\r\n")
          [] base_cmd = W_uptime -> Text("uptime")
          [] base_cmd = W_w -> Text("w")
          [] base_cmd = W_ls ->
                 IF Contains(cmd_lower, S_etc) THEN Text("ls /etc")
                 ELSE IF Contains(cmd_lower, S_dash_la) \/ Contains(cmd_lower, S_dash_al)
                      THEN Text("ls -la")
                      ELSE Text(".bash_history  .bashrc  .ssh\r\n")
          [] base_cmd = W_cat ->
                 IF Contains(cmd_lower, S_etc_passwd) THEN Text("cat /etc/passwd")
                 ELSE IF Contains(cmd_lower, S_etc_shadow)
                      THEN Text("cat: /etc/shadow: Permission denied\r\n")
                      ELSE Text("cat: No such file or directory\r\n")
          [] base_cmd = W_ps -> Text("ps")
          [] base_cmd \in {W_netstat, W_ss} ->
                 Text("Netstat exec failed: No such file or directory\r\n")
          [] base_cmd = W_ifconfig -> Text("ifconfig")
          [] base_cmd = W_ip ->
                 IF Contains(cmd_lower, S_addr) \/ Contains(cmd_lower, S_a)
                 THEN Text("ip addr") ELSE Text("Usage: ip [ OPTIONS ] OBJECT\r\n")
          [] base_cmd \in {W_curl, W_wget} -> Built("bash: command not found", base_cmd)
          [] base_cmd = W_cd -> EmptyText
          [] base_cmd = W_echo ->
                 Built("echo", Trim(StripPrefixOrEmpty(Trim(cmd), W_echo)))
          [] base_cmd \in {W_exit, W_quit, W_logout} -> EmptyText
          [] base_cmd = W_help -> Text("help")
          [] base_cmd = W_history -> Text("history")
          [] base_cmd \in {W_env, W_printenv} -> Text("env")
          [] base_cmd = <<>> -> EmptyText
          [] OTHER -> Built("bash: command not found", base_cmd)

(* ChannelState::default *)
ChannelStateDefault == [line_buffer |-> <<>>, commands |-> <<>>, shell_active |-> FALSE]

(* The UTF-8 bytes of a string: U+FFFD takes three. *)
RECURSIVE Utf8Bytes(_)
Utf8Bytes(s) ==
    IF s = <<>> THEN <<>>
    ELSE IF Len(s) = 1
    THEN (IF s[1] < 128 THEN <<s[1]>> ELSE <<239, 191, 189>>)
    ELSE LET half == Len(s) \div 2
         IN  Utf8Bytes(SubSeq(s, 1, half)) \o Utf8Bytes(SubSeq(s, half + 1, Len(s)))

(* SshSession::log_commands: the event it sends and publishes, if any. *)
log_commands(chs, channel, id, ts) ==
    IF channel \notin DOMAIN chs THEN None
    ELSE IF chs[channel].commands = <<>> THEN None
    ELSE LET commands_str == Utf8Bytes(Join(chs[channel].commands, 10))
             event == AttackEvent(id, ts, "ssh", 22, "SSH shell commands")
         IN  Some([with_request_size(with_payload(event, commands_str),
                                     Len(commands_str)) EXCEPT !.chan = channel])

(* write_tx.send(event.clone()); event_bus.publish(event) *)
SshEmit(evs) ==
    /\ queue' = IF evs = None THEN queue ELSE ChannelSend(queue, evs[1])
    /\ published' = IF evs = None THEN published ELSE publish(published, evs[1].id)
    /\ nextEv' = nextEv + Len(evs)

IsExitCommand(cmd_lower) == cmd_lower \in {W_exit, W_quit, W_logout}

Prompt == Text("root@honeypot:~# ")

(* Handler::data: one character of the input.  acc is the channel state,  *)
(* should_close and what was written so far.                               *)
DataChar(acc, ch) ==
    LET st == acc.st
    IN  CASE ch \in {13, 10} ->
               LET cmd    == Trim(st.line_buffer)
                   isExit == cmd # <<>> /\ IsExitCommand(ToLowercase(cmd))
                   output == IF cmd # <<>> /\ ~isExit
                             THEN generate_fake_output(cmd) ELSE EmptyText
                   close  == acc.close \/ isExit
               IN  [st |-> [st EXCEPT !.line_buffer = <<>>,
                                      !.commands = IF cmd # <<>> THEN Append(@, cmd)
                                                   ELSE @],
                    close |-> close,
                    out |-> acc.out \o <<Text("\r\n")>>
                            \o (IF output # EmptyText THEN <<output>> ELSE <<>>)
                            \o (IF ~close THEN <<Prompt>> ELSE <<>>)]
          [] ch \in {127, 8} ->
               IF st.line_buffer # <<>>
               THEN [acc EXCEPT !.st.line_buffer = SubSeq(@, 1, Len(@) - 1),
                                !.out = Append(@, Text("BS SP BS"))]
               ELSE acc
          [] ch = 3 ->
               [acc EXCEPT !.st.line_buffer = <<>>,
                           !.out = @ \o <<Text("^C\r\n"), Prompt>>]
          [] ch = 4 ->
               [acc EXCEPT !.close = TRUE, !.out = Append(@, Text("\r\nlogout\r\n"))]
          [] ch >= 32 /\ ch < 127 ->
               IF Len(st.line_buffer) < MAX_LINE_BUFFER
               THEN [acc EXCEPT !.st.line_buffer = Append(@, ch),
                                !.out = Append(@, Built("", <<ch>>))]
               ELSE acc
          [] OTHER -> acc

RECURSIVE DataChars(_, _)
DataChars(acc, chars) ==
    IF chars = <<>> THEN acc ELSE DataChars(DataChar(acc, Head(chars)), Tail(chars))

P_ls == <<108, 115, 10>>
P_exit == <<101, 120, 105, 116, 13>>
P_exit_ls == <<101, 120, 105, 116, 10, 108, 115, 10>>
P_exit_0 == <<101, 120, 105, 116, 32, 48, 10>>
P_ctrl_d == <<4>>
P_edit == <<108, 120, 127, 115>>
P_ctrl_c == <<120, 3>>
P_blank == <<32, 10>>

SshPackets == {P_ls, P_exit, P_exit_ls, P_exit_0, P_ctrl_d, P_edit, P_ctrl_c, P_blank}

(* "whoami", "exit" and " ls" *)
SshExecCommands == {W_whoami, W_exit, <<32>> \o W_ls}

ChannelIds == 1..MaxChannelIds

SshNoEmit == UNCHANGED <<queue, published, nextEv>>

sshRest == <<now, closed, closeBacklog, buffer, wbpc, dequeued, attempted, failed,
             dbVars, inflight, aggVars, telVars, callVars>>

sshFrame == <<sshRest, sshAuth>>

----------------------------------------------------------------------------
(* SSH authentication callbacks. *)

W_admin == <<97, 100, 109, 105, 110>>
W_admin123 == <<97, 100, 109, 105, 110, 49, 50, 51>>

SshUsers == {W_root, W_admin}
SshPasswords == {W_admin123}
SshKeys == {1}

(* PublicKey::fingerprint(HashAlg::Sha256) as text: "SHA256:" and the     *)
(* 43 characters of the unpadded base64 digest.                            *)
Fingerprint(key) ==
    <<83, 72, 65, 50, 53, 54, 58>> \o [i \in 1..43 |-> 65 + ((key * 7 + i) % 26)]

(* str::strip_prefix *)
StripPrefix(s, p) ==
    IF Len(s) >= Len(p) /\ SubSeq(s, 1, Len(p)) = p
    THEN Some(SubSeq(s, Len(p) + 1, Len(s)))
    ELSE None

PasswordDetailBare(user, password) == password

(* auth_password: format!("{}:{}", user, password) *)
PasswordDetail(user, password) == user \o <<58>> \o password

(* auth_publickey: format!("{}@{}", user, fingerprint) *)
PublickeyDetail(user, key) == user \o <<64>> \o Fingerprint(key)

(* SshSession::log_auth_event: the event it sends and publishes.  The    *)
(* cast of the size to u32 changes nothing below 2^32 bytes.              *)
log_auth_event(auth_method, username, auth_detail, id, ts) ==
    LET request == <<"SSH auth", auth_method, auth_detail>>
        request_size == Len(username) + Len(auth_detail) + 50
        e0 == AttackEvent(id, ts, "ssh", 22, request)
        stripped == StripPrefix(auth_detail, username \o <<58>>)
        e1 == IF auth_method = "password" /\ stripped # None
              THEN with_credentials(e0, username, stripped[1])
              ELSE e0
    IN  with_request_size(e1, request_size)

SshNoAuth == [username |-> None, auth_method |-> None,
              last |-> [method |-> "", user |-> <<>>, secret |-> <<>>,
                        accept |-> FALSE, event |-> None]]

AuthCall(method, user, secret, event) ==
    [method |-> method, user |-> user, secret |-> secret, accept |-> TRUE,
     event |-> event]

(* Handler::auth_password *)
SshAuthPassword ==
    /\ sshCalls < MaxSshCalls
    /\ \E user \in SshUsers, password \in SshPasswords :
         LET event == log_auth_event("password", user,
                                     PasswordDetail(user, password), nextEv, now)
         IN  /\ sshAuth' = [username |-> Some(user), auth_method |-> Some("password"),
                            last |-> AuthCall("password", user, password, Some(event))]
             /\ SshEmit(Some(event))
    /\ sshCalls' = sshCalls + 1
    /\ ssh_out' = <<>>
    /\ UNCHANGED <<channels, everOpened, closedLives, sshRest>>

(* Handler::auth_none *)
SshAuthNone ==
    /\ sshCalls < MaxSshCalls
    /\ \E user \in SshUsers :
         LET event == log_auth_event("none", user, user, nextEv, now)
         IN  /\ sshAuth' = [username |-> Some(user), auth_method |-> Some("none"),
                            last |-> AuthCall("none", user, <<>>, Some(event))]
             /\ SshEmit(Some(event))
    /\ sshCalls' = sshCalls + 1
    /\ ssh_out' = <<>>
    /\ UNCHANGED <<channels, everOpened, closedLives, sshRest>>

(* Handler::auth_publickey *)
SshAuthPublickey ==
    /\ sshCalls < MaxSshCalls
    /\ \E user \in SshUsers, key \in SshKeys :
         LET event == log_auth_event("publickey", user,
                                     PublickeyDetail(user, key), nextEv, now)
         IN  /\ sshAuth' = [username |-> Some(user), auth_method |-> Some("publickey"),
                            last |-> AuthCall("publickey", user, Fingerprint(key),
                                              Some(event))]
             /\ SshEmit(Some(event))
    /\ sshCalls' = sshCalls + 1
    /\ ssh_out' = <<>>
    /\ UNCHANGED <<channels, everOpened, closedLives, sshRest>>

(* Handler::auth_publickey_offered *)
SshAuthPublickeyOffered ==
    /\ sshCalls < MaxSshCalls
    /\ \E user \in SshUsers, key \in SshKeys :
         sshAuth' = [sshAuth EXCEPT !.last = AuthCall("publickey_offered", user,
                                                     Fingerprint(key), None)]
    /\ sshCalls' = sshCalls + 1
    /\ ssh_out' = <<>>
    /\ SshNoEmit
    /\ UNCHANGED <<channels, everOpened, closedLives, sshRest>>

ChannelLimitNever(chs) == FALSE

(* channel_open_session: self.channels.len() >= MAX_CHANNELS_PER_SESSION *)
ChannelLimitReached(chs) == Cardinality(DOMAIN chs) >= MAX_CHANNELS_PER_SESSION

(* Handler::channel_open_session.  Its result makes the server answer     *)
(* with an open confirmation or an open failure.                           *)
SshChannelOpenSession ==
    /\ sshCalls < MaxSshCalls
    /\ \E c \in ChannelIds \ everOpened :
         /\ everOpened' = everOpened \cup {c}
         /\ channels' = IF ChannelLimitReached(channels)
                        THEN channels
                        ELSE (c :> ChannelStateDefault) @@ channels
    /\ ssh_out' = IF ChannelLimitReached(channels)
                  THEN <<Text("open_failure")>>
                  ELSE <<Text("open_confirmation")>>
    /\ sshCalls' = sshCalls + 1
    /\ SshNoEmit
    /\ UNCHANGED <<closedLives, sshFrame>>

(* Handler::shell_request *)
SshShellRequest ==
    /\ sshCalls < MaxSshCalls
    /\ \E c \in DOMAIN channels :
         channels' = [channels EXCEPT ![c].shell_active = TRUE]
    /\ ssh_out' = <<Text("banner"), Prompt>>
    /\ sshCalls' = sshCalls + 1
    /\ SshNoEmit
    /\ UNCHANGED <<everOpened, closedLives, sshFrame>>

(* session.exit_status_request(channel, 0); session.close(channel) *)
ChannelCloseSent == <<Text("exit-status 0"), Text("CHANNEL_CLOSE")>>

(* Handler::exec_request *)
SshExecRequest ==
    /\ sshCalls < MaxSshCalls
    /\ \E c \in DOMAIN channels, data \in SshExecCommands :
         LET command == FromUtf8Lossy(data)
             chs     == [channels EXCEPT ![c].commands = Append(@, command)]
             output  == generate_fake_output(command)
         IN  /\ channels' = chs
             /\ ssh_out' = (IF output # EmptyText THEN <<output>> ELSE <<>>)
                           \o ChannelCloseSent
             /\ SshEmit(log_commands(chs, c, nextEv, now))
    /\ sshCalls' = sshCalls + 1
    /\ UNCHANGED <<everOpened, closedLives, sshFrame>>

(* Handler::data *)
SshData ==
    /\ sshCalls < MaxSshCalls
    /\ \E c \in DOMAIN channels, data \in SshPackets :
         LET r == DataChars([st |-> channels[c], close |-> FALSE, out |-> <<>>],
                            FromUtf8Lossy(data))
             should_close == r.close \/ Len(r.st.commands) >= MAX_COMMANDS
             chs == [channels EXCEPT ![c] = r.st]
         IN  /\ channels' = chs
             /\ ssh_out' = r.out \o (IF should_close THEN ChannelCloseSent ELSE <<>>)
             /\ IF should_close THEN SshEmit(log_commands(chs, c, nextEv, now))
                ELSE SshNoEmit
    /\ sshCalls' = sshCalls + 1
    /\ UNCHANGED <<everOpened, closedLives, sshFrame>>

(* Handler::channel_eof *)
SshChannelEof ==
    /\ sshCalls < MaxSshCalls
    /\ \E c \in DOMAIN channels : SshEmit(log_commands(channels, c, nextEv, now))
    /\ sshCalls' = sshCalls + 1
    /\ ssh_out' = <<>>
    /\ UNCHANGED <<channels, everOpened, closedLives, sshFrame>>

(* Handler::channel_close *)
SshChannelClose ==
    /\ sshCalls < MaxSshCalls
    /\ \E c \in DOMAIN channels :
         /\ SshEmit(log_commands(channels, c, nextEv, now))
         /\ channels' = [d \in DOMAIN channels \ {c} |-> channels[d]]
         /\ closedLives' = closedLives \cup
                {[chan |-> c, ncommands |-> Len(channels[c].commands)]}
    /\ sshCalls' = sshCalls + 1
    /\ ssh_out' = <<>>
    /\ UNCHANGED <<everOpened, sshFrame>>

----------------------------------------------------------------------------
(* A direct call of Database::batch_insert_events. *)

MaxBatch == 2           \* events in one direct call of batch_insert_events

BatchInsertCall ==
    \E n \in 0..MaxBatch, size \in RequestSizes :
      /\ nextEv + n - 1 <= MaxEvents
      /\ LET events == [i \in 1..n |->
                          with_request_size(
                              AttackEvent(nextEv + i - 1, now, "http", 80, "HTTP"),
                              size)]
         IN  \E failAt \in FailPoints(events) :
               LET res == BatchInsertEvents(requests, events, failAt)
               IN  /\ requests' = res.rows
                   /\ biCall' = [called |-> TRUE, events |-> events,
                                 before |-> requests, ok |-> res.ok]
      /\ nextEv' = nextEv + n
      /\ UNCHANGED <<now, wbVars, stats_daily, published, inflight, aggVars,
                     sshVars, telVars, aggCall, apiVars, sse, iac, ftp, http, boot, aggRun, statsCall>>

----------------------------------------------------------------------------
(* The statistics queries. *)

(* The sum of the counts of a service_counts table. *)
RECURSIVE CountsTotal(_)
CountsTotal(counts) ==
    IF DOMAIN counts = {} THEN 0
    ELSE LET k == CHOOSE x \in DOMAIN counts : TRUE
         IN  counts[k] + CountsTotal([x \in DOMAIN counts \ {k} |-> counts[x]])

RECURSIVE SumTotalRequests(_)
SumTotalRequests(S) ==
    IF S = {} THEN 0
    ELSE LET R == CHOOSE x \in S : TRUE
         IN  R.total_requests + SumTotalRequests(S \ {R})

RECURSIVE SumTotalBytes(_)
SumTotalBytes(S) ==
    IF S = {} THEN 0
    ELSE LET R == CHOOSE x \in S : TRUE
         IN  R.total_bytes + SumTotalBytes(S \ {R})

RECURSIVE SumService(_, _)
SumService(S, svc) ==
    IF S = {} THEN 0
    ELSE LET R == CHOOSE x \in S : TRUE
         IN  (IF svc \in DOMAIN R.service_counts THEN R.service_counts[svc] ELSE 0)
             + SumService(S \ {R}, svc)

(* The service_counts tables of the rollup rows, merged by summing. *)
MergeServiceCounts(S) ==
    [svc \in UNION {DOMAIN R.service_counts : R \in S} |-> SumService(S, svc)]

(* A statistics result.  counted is a ghost: the ids of the rows of the   *)
(* requests table the result was counted from.                             *)
EmptyStats == [total |-> 0, services |-> <<>>, source |-> "none", counted |-> {}]

(* Database::get_live_stats *)
get_live_stats(rows, since_ts) ==
    LET sel == SelectSeq(rows, LAMBDA r : r.ev.timestamp > since_ts)
    IN  [total |-> Len(sel), services |-> ServiceCounts(sel), source |-> "live",
         counted |-> {sel[i].id : i \in 1..Len(sel)}]

(* Database::get_rollup_stats *)
get_rollup_stats(rows, stats, since_ts, before_ts) ==
    LET since_day  == ts_to_day_bucket(since_ts)
        before_day == ts_to_day_bucket(before_ts)
        sel == {R \in stats : R.day_bucket >= since_day /\ R.day_bucket < before_day}
    IN  IF sel = {} THEN get_live_stats(rows, since_ts)
        ELSE [total |-> SumTotalRequests(sel), services |-> MergeServiceCounts(sel),
              source |-> "rollup", counted |-> {}]

(* Database::get_stats_hybrid at the instant t *)
get_stats_hybrid(rows, stats, t, since_hours) ==
    LET today_start     == TodayStart(t)
        yesterday_start == today_start - DAY_MS
        since_ts        == t - since_hours * HOUR_MS
        first_complete_day == ts_to_day_bucket(since_ts) + DAY_MS
    IN  IF since_hours = 24
        THEN get_rollup_stats(rows, stats, yesterday_start, today_start)
        ELSE IF first_complete_day < today_start
             THEN get_rollup_stats(rows, stats, first_complete_day, today_start)
             ELSE EmptyStats

(* Database::get_total_bytes at the instant t *)
get_total_bytes(stats, t, since_hours) ==
    LET today_start == TodayStart(t)
        query_start == IF since_hours = 24 THEN today_start - DAY_MS
                       ELSE ts_to_day_bucket(t - since_hours * HOUR_MS) + DAY_MS
        query_end   == IF since_hours = 24 THEN today_start
                       ELSE ts_to_day_bucket(today_start)
        sel == {R \in stats : R.day_bucket >= query_start /\ R.day_bucket < query_end}
    IN  [EmptyStats EXCEPT !.total = SumTotalBytes(sel), !.source = "rollup"]

----------------------------------------------------------------------------
(* Database::get_stats_hybrid with the lists of its StatsResponse: the     *)
(* order of every Vec, and the credential and path tables of the rollup    *)
(* rows.  A credential is the pair of a user and a password, a path is a   *)
(* number.                                                                  *)

MaxStatsCalls == 1      \* direct calls of get_stats_hybrid in one run

(* The hours the calls are made with.  720 and 8760 take the branch of 168 *)
(* and differ only in since_ts, which is beyond TLC's integers for them.   *)
StatsHours == {24, 168}

RECURSIVE SumCounts(_, _, _)
SumCounts(S, table, k) ==
    IF S = {} THEN 0
    ELSE LET R == CHOOSE x \in S : TRUE
         IN  (IF k \in DOMAIN R[table] THEN R[table][k] ELSE 0)
             + SumCounts(S \ {R}, table, k)

(* for (k, v) in map { *entry(k).or_insert(0) += v }, over every row *)
MergeCounts(S, table) ==
    [k \in UNION {DOMAIN R[table] : R \in S} |-> SumCounts(S, table, k)]

RECURSIVE SumListCounts(_, _)
SumListCounts(list, key) ==
    IF list = <<>> THEN 0
    ELSE (IF <<Head(list).u, Head(list).p>> = key THEN Head(list).c ELSE 0)
         + SumListCounts(Tail(list), key)

RECURSIVE SumCredentials(_, _)
SumCredentials(S, key) ==
    IF S = {} THEN 0
    ELSE LET R == CHOOSE x \in S : TRUE
         IN  SumListCounts(R.credential_counts, key) + SumCredentials(S \ {R}, key)

(* for c in list { *credentials.entry((c.u, c.p)).or_insert(0) += c.c } *)
MergeCredentials(S) ==
    [key \in UNION {{<<R.credential_counts[i].u, R.credential_counts[i].p>> :
                        i \in 1..Len(R.credential_counts)} : R \in S}
        |-> SumCredentials(S, key)]

(* A number per key, different for different keys. *)
PathNumber(K) == [k \in K |-> k]

CredentialNumber(K) == [k \in K |-> 100 * k[1] + k[2]]

(* HashMap::into_iter yields the entries in an order that depends on the   *)
(* hasher's random state: every order for a map of up to three keys, and   *)
(* for a larger map the order of the keys' numbers and its reverse.        *)
HashMapOrders(K, number) ==
    LET n == Cardinality(K)
    IN  IF n <= 3
        THEN {o \in [1..n -> K] : \A i, j \in 1..n : i # j => o[i] # o[j]}
        ELSE {[i \in 1..n |-> CHOOSE k \in K :
                                 Cardinality({j \in K : number[j] < number[k]}) = i - 1],
              [i \in 1..n |-> CHOOSE k \in K :
                                 Cardinality({j \in K : number[j] > number[k]}) = i - 1]}

(* sort_by(|a, b| b.count.cmp(&a.count)): a stable sort, larger counts     *)
(* first.                                                                   *)
SortByCountDesc(list) ==
    LET n == Len(list)
        Ahead(i) == {j \in 1..n : \/ list[j].count > list[i].count
                                   \/ (list[j].count = list[i].count /\ j < i)}
    IN  [r \in 1..n |-> list[CHOOSE i \in 1..n : Cardinality(Ahead(i)) = r - 1]]

(* Vec::truncate *)
Truncate(list, len) == IF Len(list) > len THEN SubSeq(list, 1, len) ELSE list

(* The StatsResponse values get_rollup_stats can return from the rows in   *)
(* [since_ts, before_ts), or the result of get_live_stats when there is no *)
(* such row.  services is collected from its map and left as it is; a row  *)
(* counts at most three services.                                           *)
RollupStatsResponses(rows, stats, since_ts, before_ts) ==
    LET since_day  == ts_to_day_bucket(since_ts)
        before_day == ts_to_day_bucket(before_ts)
        sel == {R \in stats : R.day_bucket >= since_day /\ R.day_bucket < before_day}
        services    == MergeCounts(sel, "service_counts")
        credentials == MergeCredentials(sel)
        paths       == MergeCounts(sel, "path_counts")
    IN  IF sel = {}
        THEN {[source |-> "live", live |-> get_live_stats(rows, since_ts)]}
        ELSE {[source |-> "rollup",
               total |-> SumTotalRequests(sel),
               services |-> [i \in DOMAIN so |->
                                [service |-> so[i], count |-> services[so[i]]]],
               credentials |->
                   Truncate(SortByCountDesc(
                       [i \in DOMAIN co |-> [username |-> co[i][1], password |-> co[i][2],
                                              count |-> credentials[co[i]]]]), 50),
               paths |->
                   Truncate(SortByCountDesc(
                       [i \in DOMAIN po |-> [path |-> po[i], count |-> paths[po[i]]]]), 50)] :
              so \in HashMapOrders(DOMAIN services, <<>>),
              co \in HashMapOrders(DOMAIN credentials, CredentialNumber(DOMAIN credentials)),
              po \in HashMapOrders(DOMAIN paths, PathNumber(DOMAIN paths))}

EmptyResponse ==
    [source |-> "none", total |-> 0, services |-> <<>>, credentials |-> <<>>,
     paths |-> <<>>]

(* Database::get_stats_hybrid at the instant t *)
StatsHybridResponses(rows, stats, t, since_hours) ==
    LET today_start     == TodayStart(t)
        yesterday_start == today_start - DAY_MS
        since_ts        == t - since_hours * HOUR_MS
        first_complete_day == ts_to_day_bucket(since_ts) + DAY_MS
    IN  IF since_hours = 24
        THEN RollupStatsResponses(rows, stats, yesterday_start, today_start)
        ELSE IF first_complete_day < today_start
             THEN RollupStatsResponses(rows, stats, first_complete_day, today_start)
             ELSE {EmptyResponse}

StatsIdle == [calls |-> 0, hours |-> 0, resp |-> EmptyResponse]

statsFrame == <<now, nextEv, wbVars, dbVars, published, inflight, aggVars, sshVars,
                telVars, biCall, aggCall, apiVars, sse, iac, http, boot, aggRun, ftp>>

(* A call of get_stats_hybrid and its result. *)
StatsHybridCall ==
    /\ statsCall.calls < MaxStatsCalls
    /\ \E hours \in StatsHours :
         \E resp \in StatsHybridResponses(requests, stats_daily, now, hours) :
            statsCall' = [calls |-> statsCall.calls + 1, hours |-> hours, resp |-> resp]
    /\ UNCHANGED statsFrame

----------------------------------------------------------------------------
(* The API handlers and their caches. *)

MaxApiCalls == 2        \* API calls in one run

CACHE_TTL_SECS == 300

ALLOWED_HOURS == {24, 168, 720, 8760}

Endpoints == {"stats", "total_bytes"}

(* The hours values the clients send. *)
ApiHours == {24, 168, 100}

ValidateHoursAny(hours) == TRUE

(* validate_hours returns Ok *)
validate_hours(hours) == hours \in ALLOWED_HOURS

CacheKeyIgnoresHours(endpoint, hours) == <<endpoint, 0>>

(* Each get_cached_* function has a cache of its own, keyed by hours. *)
CacheKey(endpoint, hours) == <<endpoint, hours>>

(* TimedCache: an entry is served while its age is below the TTL. *)
CacheValid(c, key, t) ==
    /\ key \in DOMAIN c
    /\ (t - c[key].stored) \div 1000 < CACHE_TTL_SECS

(* TimedCache::cache_get drops the entry it finds expired. *)
CacheAfterGet(c, key, t) ==
    IF key \in DOMAIN c /\ ~CacheValid(c, key, t)
    THEN [k \in DOMAIN c \ {key} |-> c[k]]
    ELSE c

CacheSet(c, key, value, t) ==
    [k \in DOMAIN c \cup {key} |->
        IF k = key THEN [value |-> value, stored |-> t] ELSE c[k]]

(* The body of get_cached_stats and of get_cached_total_bytes: the store  *)
(* query, with the value that replaces an error.                           *)
ComputeValue(endpoint, hours, t, ok) ==
    [endpoint |-> endpoint, hours |-> hours, at |-> t, ok |-> ok,
     stats |-> IF ~ok THEN EmptyStats
               ELSE IF endpoint = "stats"
                    THEN get_stats_hybrid(requests, stats_daily, t, hours)
                    ELSE get_total_bytes(stats_daily, t, hours)]

NoValue == [endpoint |-> "", hours |-> 0, at |-> 0, ok |-> FALSE, stats |-> EmptyStats]

ApiResponse(status, endpoint, hours, body, from_cache) ==
    [status |-> status, endpoint |-> endpoint, hours |-> hours, body |-> body,
     from_cache |-> from_cache]

ApiIdle ==
    [calls |-> 0, tasks |-> {}, queries |-> 0,
     req |-> [endpoint |-> "", hours |-> 0, at |-> 0],
     resp |-> ApiResponse(0, "", 0, NoValue, FALSE)]

apiFrame == <<nextEv, wbVars, dbVars, published, inflight, aggVars, sshVars,
              telVars, biCall, aggCall, sse, iac, ftp, http, boot, aggRun, statsCall>>

(* api_stats, api_total_bytes: validate_hours, then the cached function   *)
(* up to its cache lookup.  A miss leaves the call waiting for the store.  *)
ApiRequest ==
    /\ api.calls < MaxApiCalls
    /\ \E endpoint \in Endpoints, hours \in ApiHours :
         LET key == CacheKey(endpoint, hours)
             a   == [api EXCEPT !.calls = @ + 1,
                                !.req = [endpoint |-> endpoint, hours |-> hours,
                                         at |-> now]]
         IN  IF ~validate_hours(hours)
             THEN /\ api' = [a EXCEPT !.resp =
                                ApiResponse(400, endpoint, hours, NoValue, FALSE)]
                  /\ cache' = cache
             ELSE IF CacheValid(cache, key, now)
             THEN /\ api' = [a EXCEPT !.resp =
                                ApiResponse(200, endpoint, hours, cache[key].value, TRUE)]
                  /\ cache' = cache
             ELSE /\ api' = [a EXCEPT !.tasks = @ \cup
                                {[id |-> a.calls, endpoint |-> endpoint,
                                  hours |-> hours]}]
                  /\ cache' = CacheAfterGet(cache, key, now)
    /\ UNCHANGED <<now, apiFrame>>

(* A waiting call: the store query runs, its result is put in the cache   *)
(* and returned.                                                           *)
ApiCompute ==
    /\ \E task \in api.tasks, ok \in BOOLEAN :
         LET value == ComputeValue(task.endpoint, task.hours, now, ok)
         IN  /\ cache' = CacheSet(cache, CacheKey(task.endpoint, task.hours),
                                  value, now)
             /\ api' = [api EXCEPT !.tasks = @ \ {task},
                                   !.queries = @ + 1,
                                   !.resp = ApiResponse(200, task.endpoint,
                                                        task.hours, value, FALSE)]
    /\ UNCHANGED <<now, apiFrame>>

ApiBootTime == 10 * DAY_MS + HOUR_MS

(* The instants around the expiry of an entry stored at ApiBootTime. *)
ApiInstants == {ApiBootTime + CACHE_TTL_SECS * 1000 - 1,
                ApiBootTime + CACHE_TTL_SECS * 1000}

ApiAdvance ==
    /\ \E t \in ApiInstants : t > now /\ now' = t
    /\ UNCHANGED <<apiFrame, apiVars>>

ApiEvent(id, ts, service, size) ==
    with_request_size(AttackEvent(id, ts, service, 80, "HTTP"), size)

(* A requests table with rows of an earlier day, of yesterday and of      *)
(* today.                                                                  *)
ApiRows ==
    InsertRows(<<>>, <<ApiEvent(0 - 4, 5 * DAY_MS + 10, "http", 40),
                       ApiEvent(0 - 3, 9 * DAY_MS + 10, "ssh", 63),
                       ApiEvent(0 - 2, 9 * DAY_MS + 20, "http", 40),
                       ApiEvent(0 - 1, 10 * DAY_MS + 5, "http", 40)>>,
               "write_buffer")

(* The stores the API is observed on: a new database, rows with no        *)
(* rollup yet, rows with the rollup of the earlier day only, and rows      *)
(* with the rollups of every completed day.                                *)
ApiStores ==
    LET older == AggregateDay(ApiRows, {}, 5 * DAY_MS)
    IN  {[rows |-> <<>>, stats |-> {}],
         [rows |-> ApiRows, stats |-> {}],
         [rows |-> ApiRows, stats |-> older],
         [rows |-> ApiRows, stats |-> AggregateDay(ApiRows, older, 9 * DAY_MS)]}

----------------------------------------------------------------------------
(* Initial states and specifications. *)

(* The worker is observed from its start, or after it has received a      *)
(* burst of BATCH_SIZE - 2 events since the last flush tick (which that    *)
(* many sends and receives reach).  The events of the burst have the ids   *)
(* 1 - b .. 0.                                                              *)
BurstSizes == {0, BATCH_SIZE - 2}

BurstEvent(i) == with_request_size(AttackEvent(i, BootTime, "http", 80, "HTTP"), 40)

BurstBuffer(b) == [k \in 1..b |-> BurstEvent(k - b)]

(* The requests table as an earlier run left it: empty, or with one row   *)
(* of the day before the boot day and no rollup yet.                       *)
PersistedStores ==
    {<<>>,
     InsertRow(<<>>, with_request_size(
                         AttackEvent(0 - BATCH_SIZE, DAY_MS - 1000, "http", 80, "HTTP"),
                         40), "write_buffer")}

(* The requests table as an earlier run left it: as in PersistedStores, or *)
(* with two rows stored against the order of their timestamps, one of the  *)
(* boot day and one of the day before.                                      *)
RolledStores ==
    PersistedStores \cup
    {InsertRow(InsertRow(<<>>, AttackEvent(0 - BATCH_SIZE, DAY_MS + 5000, "ssh", 22, "SSH"),
                         "write_buffer"),
               AttackEvent(1 - BATCH_SIZE, DAY_MS - 1000, "http", 80, "HTTP"),
               "write_buffer")}

(* Rollup rows as aggregate_day leaves them, with their credential and    *)
(* path tables: the days 3, 4, 5 and 9 after the epoch.  The days 4 and 5  *)
(* have 55 credentials and 55 paths between them, 5 of them in both.       *)
StatsRow(day, services, lo, hi, weight) ==
    [day_bucket |-> day * DAY_MS,
     total_requests |-> CountsTotal(services),
     total_bytes |-> 40 * CountsTotal(services),
     service_counts |-> services,
     credential_counts |-> [i \in 1..(hi - lo + 1) |->
                               [u |-> lo + i - 1, p |-> 1, c |-> weight[lo + i - 1]]],
     path_counts |-> [k \in lo..hi |-> weight[k]]]

StatsRows ==
    {StatsRow(3, [s \in {"ssh"} |-> 7], 1, 1, [k \in 1..55 |-> 7]),
     StatsRow(4, [s \in {"ssh", "http", "ftp"} |->
                     IF s = "ftp" THEN 1 ELSE 465],
              1, 30, [k \in 1..55 |-> k]),
     StatsRow(5, [s \in {"ssh", "http"} |-> 465], 26, 55, [k \in 1..55 |-> 56 - k]),
     StatsRow(9, [s \in {"ssh", "ftp"} |-> IF s = "ssh" THEN 2 ELSE 3], 1, 2,
              [k \in 1..55 |-> k])}

StatsInstants == {10 * DAY_MS + 100, 11 * DAY_MS + 100}

(* The state after construction, with the parts a specification presets. *)
InitState(o) ==
    /\ now = o.now
    /\ nextEv = 1
    /\ queue = <<>>
    /\ closed = FALSE
    /\ closeBacklog = 0
    /\ buffer = BurstBuffer(o.burst)
    /\ wbpc = "select"
    /\ dequeued = [k \in 1..o.burst |-> k - o.burst]
    /\ attempted = {}
    /\ failed = {}
    /\ requests = o.rows
    /\ published = o.bus
    /\ inflight = {}
    /\ stats_daily = o.stats
    /\ nextHourly = o.now
    /\ backfill = BackfillIdle
    /\ channels = o.chs
    /\ everOpened = DOMAIN o.chs
    /\ closedLives = {}
    /\ ssh_out = <<>>
    /\ sshCalls = o.calls
    /\ sshAuth = SshNoAuth
    /\ tel = o.tel
    /\ telSessions = o.telSessions
    /\ biCall = [called |-> FALSE, events |-> <<>>, before |-> <<>>, ok |-> TRUE]
    /\ aggCall = [called |-> FALSE, day |-> 0, first |-> {}, second |-> {},
                  wrote |-> FALSE]
    /\ cache = <<>>
    /\ api = ApiIdle
    /\ sse = o.conn
    /\ iac = IacStart
    /\ ftp = FtpIdle
    /\ http = [r \in 1..MaxHttpRequests |-> HttpIdle]
    /\ boot = BootStart
    /\ aggRun = [c \in AggTasks |-> AggIdle]
    /\ statsCall = StatsIdle

Boot == [now |-> BootTime, burst |-> 0, bus |-> <<>>, rows |-> <<>>, stats |-> {},
         conn |-> SseNone, chs |-> <<>>, calls |-> 0, tel |-> TelIdle,
         telSessions |-> 0]

InitBase(t, b, bus, rows, stats, conn, chs, calls) ==
    InitState([Boot EXCEPT !.now = t, !.burst = b, !.bus = bus, !.rows = rows,
                           !.stats = stats, !.conn = conn, !.chs = chs,
                           !.calls = calls])

InitFrom(t, b, bus, rows, stats, conn) ==
    InitBase(t, b, bus, rows, stats, conn, <<>>, 0)

InitAt(t, b, rows, stats) ==
    InitFrom(t, b, [k \in 1..b |-> k - b], rows, stats, SseNone)

InitWith(b, rows) == InitAt(BootTime, b, rows, {})

Init == InitWith(0, <<>>)

InitWb == \E b \in BurstSizes : InitWith(b, <<>>)

InitRollup == \E rows \in PersistedStores : InitWith(0, rows)

InitStats ==
    \E t \in StatsInstants, stats \in SUBSET StatsRows : InitAt(t, 0, <<>>, stats)

SpecStats == InitStats /\ [][StatsHybridCall]_vars

(* The ingestion pipeline: every handler, the worker and the store. *)
Next ==
    \/ TcpConnection
    \/ IcmpEchoRequest
    \/ InsertEventDone
    \/ HttpRequest
    \/ WbRecvSome
    \/ WbTick
    \/ WbFlushDone

Spec == Init /\ [][Next]_vars

(* The write buffer with its producers, from start to shutdown. *)
NextWb ==
    \/ HttpRequest
    \/ DropSenders
    \/ WbRecvSome
    \/ WbRecvNone
    \/ WbTick
    \/ WbFlushDone

SpecWb == InitWb /\ [][NextWb]_vars

(* The interval timer fires every 250 ms and the store answers every     *)
(* insert: the worker's tick branch and the end of a flush are taken when *)
(* they stay possible.                                                      *)
FairSpecWb == SpecWb /\ WF_vars(WbTick) /\ WF_vars(WbFlushDone)

NextSsh ==
    \/ SshChannelOpenSession
    \/ SshShellRequest
    \/ SshExecRequest
    \/ SshData
    \/ SshChannelEof
    \/ SshChannelClose

SpecSsh == Init /\ [][NextSsh]_vars

NextTelnet ==
    \/ TelnetAccept
    \/ TelnetBanner
    \/ TelnetLine
    \/ TelnetLoopEnds
    \/ TelnetEmit
    \/ InsertEventDone

SpecTelnet == Init /\ [][NextTelnet]_vars

NextRollup ==
    \/ Advance
    \/ HttpRequest
    \/ WbRecvSome
    \/ WbTick
    \/ WbFlushDone
    \/ HourlyTick
    \/ BackfillStart
    \/ BackfillStep

SpecRollup == InitRollup /\ [][NextRollup]_vars

SpecBatch == Init /\ [][BatchInsertCall]_vars

(* aggregate_day called directly on the stores the pipeline produces. *)
NextAgg ==
    \/ HttpRequest
    \/ WbRecvSome
    \/ WbTick
    \/ WbFlushDone
    \/ AggregateDayTwice

SpecAgg == InitRollup /\ [][NextAgg]_vars

InitApi == \E st \in ApiStores : InitAt(ApiBootTime, 0, st.rows, st.stats)

NextApi ==
    \/ ApiRequest
    \/ ApiCompute
    \/ ApiAdvance

SpecApi == InitApi /\ [][NextApi]_vars

----------------------------------------------------------------------------
(* Properties. *)

Range(seq) == {seq[i] : i \in 1..Len(seq)}

(* Command-transcript events sent to the write buffer for channel c.  No  *)
(* worker runs in SpecSsh, so the queue holds every event sent.            *)
Transcripts(c) ==
    Cardinality({i \in 1..Len(queue) :
                    /\ queue[i].request = "SSH shell commands"
                    /\ queue[i].chan = c})

(* C1: over the whole life of an SSH channel at most one command-         *)
(* transcript event is emitted, and a channel that was closed with at      *)
(* least one recorded command has emitted exactly one, whatever the        *)
(* sequence of data, exec_request, channel_eof and channel_close.          *)
C1_ExactlyOneTranscript ==
    /\ \A c \in everOpened : Transcripts(c) <= 1
    /\ \A l \in closedLives : l.ncommands > 0 => Transcripts(l.chan) = 1

(* C2: no event is a row of the requests table more than once, under any  *)
(* interleaving of sends, batch-full flushes, tick flushes, failed         *)
(* flushes and the close of the channel.                                   *)
C2_NoDuplicateInsert == Cardinality(StoredIds) = Len(requests)

(* A full batch was stored and the flush of a later batch failed. *)
C2_Witness == failed # {} /\ Len(requests) >= BATCH_SIZE

(* C3: every rollup row's totals equal the count and the byte sum of the  *)
(* raw rows of its day, in every reachable state, also when an event of    *)
(* that day is stored after aggregate_day ran.                             *)
C3_RollupMatchesRaw ==
    \A R \in stats_daily :
        LET day == RowsBetween(requests, R.day_bucket, R.day_bucket + DAY_MS)
        IN  /\ R.total_requests = Len(day)
            /\ R.total_bytes = SumSizes(day)

InsertsInProgress == Cardinality(inflight) + (IF Flushing THEN 1 ELSE 0)

(* C4: every row of requests was inserted by the write-buffer worker and  *)
(* at most one insert is in progress at any time.                          *)
C4_SingleWriter ==
    /\ \A i \in 1..Len(requests) : requests[i].by = "write_buffer"
    /\ InsertsInProgress <= 1

(* C5: every accepted Telnet connection whose session has ended has       *)
(* emitted exactly one event, on every way the session can end, and the    *)
(* event carries the username, password and commands captured so far.      *)
C5_TelnetOneEventPerSession ==
    tel.pc \in {"idle", "done"} =>
        /\ Len(published) = telSessions
        /\ tel.pc = "done" =>
             /\ tel.event # None
             /\ tel.username # <<>> =>
                  /\ tel.event[1].username = Some(tel.username)
                  /\ tel.event[1].password = Some(tel.password)
             /\ tel.commands # <<>> =>
                  tel.event[1].payload = Some(HexEncode(Join(tel.commands, 10)))

(* C6: when the worker has terminated the channel was closed, every event *)
(* queued at the close has been received, the buffer is empty and every    *)
(* event sent or received was part of a flush attempt.                     *)
C6_DrainOnClose ==
    wbpc = "done" =>
        /\ closed
        /\ queue = <<>>
        /\ buffer = <<>>
        /\ 1..(nextEv - 1) \subseteq Range(dequeued)
        /\ Range(dequeued) \subseteq attempted

(* The worker terminated after a close that left two events queued. *)
C6_Witness == wbpc = "done" /\ closeBacklog >= 2

(* C7: the buffer never waits with BATCH_SIZE events; reaching BATCH_SIZE *)
(* starts a flush attempt of the whole buffer; with a non-empty buffer     *)
(* every step of the worker's select other than receiving an event (the    *)
(* tick, or None from the channel) starts a flush attempt of the whole     *)
(* buffer; and with the timer and the store answering, every received      *)
(* event comes to a flush attempt and the buffer is emptied again.         *)
C7_FlushedByTickOrFull ==
    /\ [](wbpc = "select" => Len(buffer) < BATCH_SIZE)
    /\ [][Len(buffer') >= BATCH_SIZE /\ buffer' # buffer
            => wbpc' = "flush_full" /\ Ids(buffer') \subseteq attempted']_vars
    /\ [][(/\ wbpc = "select" /\ buffer # <<>>
           /\ queue' = queue /\ closed' = closed /\ nextEv' = nextEv)
            => Flushing' /\ Ids(buffer) \subseteq attempted']_vars
    /\ \A i \in 1..MaxEvents : (i \in Ids(buffer)) ~> (i \in attempted)
    /\ (buffer # <<>>) ~> (buffer = <<>>)

(* A tick flush is in progress after a batch-full flush stored its batch. *)
C7_Witness == wbpc = "flush_tick" /\ Len(requests) = BATCH_SIZE

(* C8: a failed flush leaves the buffer empty and the store as it was,    *)
(* the events of a failed batch are never rows, the worker goes back to    *)
(* its select (it ends only when the failed flush was the one made on      *)
(* close) and is never gone while a sender exists, and every send queues   *)
(* its event.                                                              *)
C8_FlushFailureDropsBatch ==
    /\ [][failed' # failed =>
            /\ buffer' = <<>>
            /\ requests' = requests
            /\ wbpc' = IF wbpc = "flush_close" THEN "done" ELSE "select"]_vars
    /\ [](failed \cap StoredIds = {})
    /\ [](~closed => wbpc # "done")
    /\ [][nextEv' = nextEv + 1 =>
            /\ Len(queue') = Len(queue) + 1
            /\ queue'[Len(queue')].id = nextEv]_vars

(* After a failed flush the worker has received a later event. *)
C8_Witness ==
    /\ failed # {}
    /\ ~closed
    /\ wbpc = "select"
    /\ buffer # <<>>
    /\ Ids(buffer) \cap failed = {}

(* C9: after a call of batch_insert_events the rows the table had are     *)
(* kept, and either the call succeeded and the events of the batch are     *)
(* the rows added, in order, or it failed and no row was added; a call     *)
(* with an empty batch succeeds and changes nothing.                       *)
C9_AllOrNothing ==
    biCall.called =>
        LET n0 == Len(biCall.before)
        IN  /\ Len(requests) >= n0
            /\ SubSeq(requests, 1, n0) = biCall.before
            /\ IF biCall.ok
               THEN [i \in 1..(Len(requests) - n0) |-> requests[n0 + i].ev]
                        = biCall.events
               ELSE requests = biCall.before
            /\ biCall.events = <<>> => biCall.ok /\ requests = biCall.before

(* A batch of MaxBatch events failed on a table that already had rows. *)
C9_Witness ==
    /\ biCall.called
    /\ ~biCall.ok
    /\ Len(biCall.events) = MaxBatch
    /\ biCall.before # <<>>

(* The place of an event in the order the worker dequeued it. *)
DequeuePos(id) == CHOOSE k \in 1..Len(dequeued) : dequeued[k] = id

(* C10: row ids strictly increase along the table (so they are unique),   *)
(* and of two rows written by the worker the one whose event was dequeued  *)
(* earlier has the smaller id.                                             *)
C10_IdsFollowDequeueOrder ==
    /\ \A i \in 1..(Len(requests) - 1) : requests[i].id < requests[i + 1].id
    /\ \A i \in 1..(Len(requests) - 1) :
         requests[i].by = "write_buffer" /\ requests[i + 1].by = "write_buffer"
           => DequeuePos(requests[i].ev.id) < DequeuePos(requests[i + 1].ev.id)

(* Rows of two batches: a full one, then one flushed on a tick. *)
C10_Witness == failed = {} /\ Len(requests) = BATCH_SIZE + 1

(* C11: after two calls of aggregate_day for the same bucket, one after   *)
(* the other, stats_daily is what it was after the first call, and the     *)
(* second call did not reach its write.                                    *)
C11_AggregateTwiceSame ==
    aggCall.called => aggCall.second = aggCall.first /\ ~aggCall.wrote

(* The first of the two calls wrote the row of a day that has rows. *)
C11_Witness ==
    /\ aggCall.called
    /\ \E R \in aggCall.first : R.day_bucket = aggCall.day /\ R.total_requests >= 2
    /\ aggCall.day \in RollupBuckets(stats_daily)

(* C12: every row of stats_daily is the row of a day strictly earlier     *)
(* than the UTC midnight of the current day, in every reachable state of   *)
(* the backfill task, the hourly task and the clock.                       *)
C12_RollupOnlyCompletedDays ==
    \A R \in stats_daily : R.day_bucket < TodayStart(now)

(* The clock crossed midnight while the backfill was running and the      *)
(* hourly task has aggregated the day that just ended.                     *)
C12_Witness ==
    /\ now >= Midnight
    /\ backfill.pc = "run"
    /\ DAY_MS \in RollupBuckets(stats_daily)

(* C13: an API call whose hours value is not one of 24, 168, 720, 8760    *)
(* is answered 400 with an error body; handling it starts no store query   *)
(* and leaves every cache as it was.                                       *)
C13_InvalidHoursRejected ==
    /\ [][(api'.calls = api.calls + 1 /\ api'.req.hours \notin {24, 168, 720, 8760})
            => /\ api'.resp = ApiResponse(400, api'.req.endpoint, api'.req.hours,
                                         NoValue, FALSE)
               /\ cache' = cache
               /\ api'.tasks = api.tasks
               /\ api'.queries = api.queries]_vars
    /\ [](\A task \in api.tasks : task.hours \in {24, 168, 720, 8760})
    /\ [](\A key \in DOMAIN cache : key[2] \in {24, 168, 720, 8760})

(* A call with hours = 100 was answered 400 while the cache had an entry. *)
C13_Witness ==
    /\ api.resp.status = 400
    /\ api.req.hours = 100
    /\ DOMAIN cache # {}

(* The event bus and one SSE connection.  The connection is either not   *)
(* made yet, or was made before a burst of RingCapacity - 1 events whose   *)
(* inserts failed and has not been polled since.                           *)
BusBacklog == [k \in 1..(RingCapacity - 1) |-> k - RingCapacity]

InitBus ==
    \/ InitAt(BootTime, 0, <<>>, {})
    \/ InitFrom(BootTime, 0, BusBacklog, <<>>, {},
                [SseNone EXCEPT !.pc = "open", !.next = 1])

NextBus ==
    \/ HttpRequest
    \/ SseConnect
    \/ SsePoll
    \/ SseDisconnect

SpecBus == InitBus /\ [][NextBus]_vars

(* An SSH session that already tracks four or five channels. *)
OpenChannels(n) == [c \in (1 - n)..0 |-> ChannelStateDefault]

InitSshChannels ==
    \E n \in {MAX_CHANNELS_PER_SESSION - 1, MAX_CHANNELS_PER_SESSION} :
        InitBase(BootTime, 0, <<>>, <<>>, {}, SseNone, OpenChannels(n), 0)

NextSshChannels ==
    \/ SshChannelOpenSession
    \/ SshShellRequest
    \/ SshChannelEof
    \/ SshChannelClose

SpecSshChannels == InitSshChannels /\ [][NextSshChannels]_vars

(* An SSH session with one shell channel whose history is one command    *)
(* short of MAX_COMMANDS; channel_open_session and shell_request are two   *)
(* of the callbacks it has handled.                                        *)
LongHistory == [k \in 1..(MAX_COMMANDS - 1) |-> W_w]

InitSshLong ==
    InitBase(BootTime, 0, <<>>, <<>>, {}, SseNone,
             [c \in {0} |-> [line_buffer |-> <<>>, commands |-> LongHistory,
                             shell_active |-> TRUE]], 2)

NextSshLong ==
    \/ SshData
    \/ SshExecRequest
    \/ SshChannelClose

SpecSshLong == InitSshLong /\ [][NextSshLong]_vars

(* An SSH session with one open channel whose shell was requested. *)
InitSshShell ==
    InitBase(BootTime, 0, <<>>, <<>>, {}, SseNone,
             [c \in {0} |-> [ChannelStateDefault EXCEPT !.shell_active = TRUE]], 2)

SpecSshShell == InitSshShell /\ [][NextSshLong]_vars

(* A Telnet session that has logged in and has run all but two of the    *)
(* commands it may run.                                                    *)
TelShellSession ==
    LET cmds == [k \in 1..(TELNET_MAX_COMMANDS - 2) |-> W_ls]
    IN  [TelIdle EXCEPT
            !.pc = "loop", !.state = 2, !.username = W_root, !.password = W_hunter,
            !.commands = cmds,
            !.read = <<W_root, W_hunter>> \o cmds,
            !.out = <<"banner", "login: ", "Password: ", "welcome", "prompt">>
                    \o [k \in 1..(2 * Len(cmds)) |->
                           IF k % 2 = 1 THEN "response" ELSE "prompt"]]

InitTelnetShell ==
    \/ InitState(Boot)
    \/ InitState([Boot EXCEPT !.tel = TelShellSession, !.telSessions = 1])

SpecTelnetShell == InitTelnetShell /\ [][NextTelnet]_vars

NextFtp ==
    \/ FtpAccept
    \/ FtpLine
    \/ FtpLoopEnds
    \/ FtpEmit
    \/ InsertEventDone

(* One TCP listener: its per-connection tasks run concurrently while the  *)
(* clock advances.                                                          *)
NextTcp ==
    \/ TcpConnection
    \/ InsertEventDone
    \/ HourlyTick
    \/ Advance

SpecTcp == Init /\ [][NextTcp]_vars

(* The two aggregation tasks with aggregate_day taken statement by         *)
(* statement, a handler that inserts directly, and the clock.               *)
InitAggRun == \E rows \in RolledStores : InitWith(0, rows)

NextAggRun ==
    \/ (nextEv <= MaxAggEvents /\ IcmpEchoRequest)
    \/ InsertEventDone
    \/ Advance
    \/ BackfillStart
    \/ HourlyAggregateBegin
    \/ BackfillAggregateBegin
    \/ \E c \in AggTasks : AggTotalQuery(c)
    \/ \E c \in AggTasks : AggServiceQuery(c)
    \/ \E c \in AggTasks : AggUpsert(c)

SpecAggRun == InitAggRun /\ [][NextAggRun]_vars

SpecMain == Init /\ [][NextMain]_vars

SpecHttp == Init /\ [][NextHttp]_vars

SpecFtp == Init /\ [][NextFtp]_vars

SpecIac == Init /\ [][TelnetReadByte]_vars

NextSshAuth ==
    \/ SshAuthPassword
    \/ SshAuthNone
    \/ SshAuthPublickey
    \/ SshAuthPublickeyOffered

SpecSshAuth == Init /\ [][NextSshAuth]_vars

----------------------------------------------------------------------------
(* C14: a successful stats(24) answer is the content of the rollup row of *)
(* the day before the day it was computed on: its total and its service    *)
(* counts are that row's, it is zero when the row does not exist, and no    *)
(* row of the requests table was counted for it.                            *)
C14_Stats24IsYesterdaysRow ==
    LET v == api.resp.body
    IN  (/\ api.resp.status = 200
         /\ api.resp.endpoint = "stats"
         /\ api.resp.hours = 24
         /\ v.ok)
        => LET yesterday == TodayStart(v.at) - DAY_MS
               rows == {R \in stats_daily : R.day_bucket = yesterday}
           IN  /\ v.stats.counted = {}
               /\ \A R \in rows : /\ v.stats.total = R.total_requests
                                  /\ v.stats.services = R.service_counts
               /\ rows = {} => v.stats.total = 0

(* C15: a successful answer of the hybrid stats query, for any accepted   *)
(* hours value, counts no row of the requests table whose timestamp is at  *)
(* or after the UTC midnight of the day it was computed on.                *)
C15_HybridExcludesToday ==
    LET v == api.resp.body
    IN  (api.resp.status = 200 /\ api.resp.endpoint = "stats" /\ v.ok)
        => \A i \in 1..Len(requests) :
              requests[i].id \in v.stats.counted
                => requests[i].ev.timestamp < TodayStart(v.at)

(* C16: the store computations of one cache key never overlap: at most one *)
(* call per (endpoint, hours) key is computing at any time, the other       *)
(* callers of the key wait for it.                                          *)
C16_OneComputationPerKey ==
    \A t1 \in api.tasks, t2 \in api.tasks :
        (t1.endpoint = t2.endpoint /\ t1.hours = t2.hours) => t1 = t2

(* C17: a call with accepted hours made less than 300 s after a value was *)
(* stored for its (endpoint, hours) key returns that stored value and does *)
(* not query the store; a call with no such entry, or 300 s or more after  *)
(* it was stored, starts a store computation; a value served from the      *)
(* cache was computed for the endpoint and the hours of the request.       *)
C17_CacheTtlAndKey ==
    /\ [][(/\ api'.calls = api.calls + 1
           /\ api'.req.hours \in {24, 168, 720, 8760})
          => LET key == <<api'.req.endpoint, api'.req.hours>>
                 fresh == /\ key \in DOMAIN cache
                          /\ now - cache[key].stored < 300 * 1000
             IN  IF fresh
                 THEN /\ api'.resp.status = 200
                      /\ api'.resp.from_cache
                      /\ api'.resp.body = cache[key].value
                      /\ api'.queries = api.queries
                      /\ api'.tasks = api.tasks
                 ELSE /\ api'.tasks # api.tasks
                      /\ api'.resp = api.resp]_vars
    /\ [](api.resp.from_cache
            => /\ api.resp.body.endpoint = api.resp.endpoint
               /\ api.resp.body.hours = api.resp.hours)

C17_Witness ==
    /\ api.resp.from_cache
    /\ api.req.at = ApiBootTime + 300 * 1000 - 1
    /\ api.resp.body.at = ApiBootTime
    /\ api.queries = 1

(* C18: what an SSE connection was sent is an order-preserving            *)
(* subsequence of the publish sequence without duplicates: every delivered *)
(* event is the published event of its log position, and the positions     *)
(* delivered are strictly increasing.                                      *)
C18_DeliveredInPublishOrder ==
    \A i \in 1..Len(sse.delivered) :
        /\ sse.delivered[i].pos \in 1..Len(published)
        /\ published[sse.delivered[i].pos] = sse.delivered[i].id
        /\ i > 1 => sse.delivered[i - 1].pos < sse.delivered[i].pos

C18_Witness ==
    /\ Len(sse.delivered) >= 2
    /\ sse.delivered[1].pos + 1 < sse.delivered[2].pos
    /\ Len(published) > RingCapacity

(* C19: a publish call always appends its event to the publish sequence   *)
(* and is never disabled, with no subscriber or with one that is a whole   *)
(* ring behind; a receiver that has fallen behind is told so, loses        *)
(* exactly the events older than the oldest one retained, stays open and   *)
(* can still receive whenever a retained event is waiting for it.          *)
C19_PublishSucceedsLaggedSkips ==
    /\ [][nextEv' = nextEv + 1 => published' = Append(published, nextEv)]_vars
    /\ []((~closed /\ nextEv <= MaxEvents) => ENABLED HttpRequest)
    /\ [][sse'.lagged = sse.lagged + 1
            => /\ sse'.pc = "open"
               /\ sse'.next = Len(published) - RingCapacity + 1
               /\ sse'.next > sse.next
               /\ sse'.lost = sse.lost + (sse'.next - sse.next)
               /\ sse'.delivered = sse.delivered]_vars
    /\ []((/\ sse.pc = "open"
            /\ sse.polls < MaxSsePolls
            /\ sse.next <= Len(published)) => ENABLED SsePoll)

C19_Witness ==
    /\ sse.pc = "open"
    /\ sse.lost > 0
    /\ \E i \in 1..Len(sse.delivered) :
          /\ sse.delivered[i].lagged > 0
          /\ sse.delivered[i].pos > Len(published) - RingCapacity

(* C20: once the broadcast has reported an SSE connection as lagged, the  *)
(* connection's event stream has ended and no event is delivered on it     *)
(* afterwards.                                                             *)
C20_LaggedClientDisconnected ==
    sse.lagged > 0
      => /\ sse.pc = "closed"
         /\ \A i \in 1..Len(sse.delivered) : sse.delivered[i].lagged = 0

(* C21: every password, none and publickey attempt is accepted and sends  *)
(* exactly one event (service ssh, port 22) to the write buffer and        *)
(* publishes it; publickey_offered is accepted and emits nothing; the      *)
(* event holds a username/password pair exactly for a password attempt,    *)
(* and then it is the pair the client sent.                                *)
C21_AuthAcceptedOneEvent ==
    [][sshCalls' = sshCalls + 1 /\ sshAuth'.last.method # ""
        => LET call == sshAuth'.last
           IN  /\ call.accept
               /\ IF call.method = "publickey_offered"
                  THEN queue' = queue /\ published' = published
                  ELSE /\ Len(queue') = Len(queue) + 1
                       /\ Len(published') = Len(published) + 1
                       /\ LET ev == queue'[Len(queue')]
                          IN  /\ ev.service = "ssh" /\ ev.port = 22
                              /\ published'[Len(published')] = ev.id
                              /\ ev.id \notin Ids(queue)
                              /\ IF call.method = "password"
                                 THEN /\ ev.username = Some(call.user)
                                      /\ ev.password = Some(call.secret)
                                 ELSE /\ ev.username = None
                                      /\ ev.password = None]_vars

C21_Witness ==
    /\ sshAuth.last.method = "publickey_offered"
    /\ Len(queue) = 3
    /\ \E i \in 1..Len(queue) : queue[i].password = Some(W_admin123)
    /\ \E i \in 1..Len(queue) : queue[i].request[2] = "none"
    /\ \E i \in 1..Len(queue) : queue[i].request[2] = "publickey"

(* C22: the request_size of an SSH auth event is the length of the user   *)
(* name plus the length of the secret (password, nothing, or fingerprint)  *)
(* plus 50.                                                                *)
C22_AuthRequestSize ==
    sshAuth.last.event # None
      => sshAuth.last.event[1].request_size
           = Len(sshAuth.last.user) + Len(sshAuth.last.secret) + 50

(* C23: a session never tracks more than 5 channels; a                    *)
(* channel_open_session that arrives while 5 are tracked is refused and    *)
(* leaves the channel states as they were; channel_close removes the       *)
(* state of the channel it closes.                                         *)
C23_AtMostFiveChannels ==
    /\ [](Cardinality(DOMAIN channels) <= 5)
    /\ [][everOpened' # everOpened
            => IF Cardinality(DOMAIN channels) = 5
               THEN channels' = channels /\ ssh_out' = <<Text("open_failure")>>
               ELSE /\ ssh_out' = <<Text("open_confirmation")>>
                    /\ Cardinality(DOMAIN channels')
                         = Cardinality(DOMAIN channels) + 1]_vars
    /\ [][closedLives' # closedLives
            => \E c \in DOMAIN channels :
                 /\ DOMAIN channels' = DOMAIN channels \ {c}
                 /\ \A d \in DOMAIN channels' : channels'[d] = channels[d]]_vars

C23_Witness ==
    /\ Cardinality(DOMAIN channels) = 5
    /\ ssh_out = <<Text("open_failure")>>
    /\ closedLives # {}
    /\ 1 \in DOMAIN channels

(* C24: the command history of an SSH channel never holds more than 100   *)
(* commands.                                                               *)
C24_HistoryAtMost100 ==
    \A c \in DOMAIN channels : Len(channels[c].commands) <= 100

(* C25: when a data callback finalizes a command line whose first         *)
(* whitespace-separated token, lowercased, is exit, quit or logout, the    *)
(* callback closes the channel.                                            *)
C25_ExitTokenEndsSession ==
    [][\A c \in DOMAIN channels \cap DOMAIN channels' :
          \A k \in 1..Len(channels'[c].commands) :
             (/\ k > Len(channels[c].commands)
              /\ FirstToken(ToLowercase(Trim(channels'[c].commands[k])))
                    \in {W_exit, W_quit, W_logout})
             => Text("CHANNEL_CLOSE") \in Range(ssh_out')]_vars

(* RFC 854 reading of a byte sequence: the text that remains when the IAC *)
(* command sequences are removed and IAC IAC stands for one byte 255, in   *)
(* data and inside a subnegotiation alike.  mode is the position within a  *)
(* sequence.                                                               *)
RECURSIVE IacRemoved(_, _, _)
IacRemoved(bytes, mode, out) ==
    IF bytes = <<>> THEN out
    ELSE LET b == Head(bytes)
             rest == Tail(bytes)
         IN  CASE mode = "data" ->
                    IF b = 255 THEN IacRemoved(rest, "iac", out)
                    ELSE IF b >= 32 /\ b < 127
                    THEN IacRemoved(rest, "data", Append(out, b))
                    ELSE IacRemoved(rest, "data", out)
               [] mode = "iac" ->
                    IF b = 255 THEN IacRemoved(rest, "data", Append(out, 255))
                    ELSE IF b \in {251, 252, 253, 254}
                    THEN IacRemoved(rest, "option", out)
                    ELSE IF b = 250 THEN IacRemoved(rest, "sb", out)
                    ELSE IacRemoved(rest, "data", out)
               [] mode = "option" -> IacRemoved(rest, "data", out)
               [] mode = "sb" ->
                    IF b = 255 THEN IacRemoved(rest, "sb_iac", out)
                    ELSE IacRemoved(rest, "sb", out)
               [] mode = "sb_iac" ->
                    IF b = 240 THEN IacRemoved(rest, "data", out)
                    ELSE IacRemoved(rest, "sb", out)

(* C26: the bytes read_telnet_line has passed on are the text of the      *)
(* bytes received with the IAC command sequences removed and each IAC IAC  *)
(* turned into one byte 255.                                               *)
C26_IacFilterRemovesSequences ==
    iac.passed = IacRemoved(iac.input, "data", <<>>)

(* C27: a Telnet session's state only moves forward, one step at a time   *)
(* and only on a completed line; nothing is read or written once the loop  *)
(* has ended; the first line read is the username, the second the          *)
(* password, the commands are exactly the lines read after them, in the    *)
(* shell state; at most 20 commands are recorded; a shell prompt has been  *)
(* written only if a password line was read.                               *)
C27_TelnetStatesForward ==
    /\ [][telSessions' = telSessions
            => /\ tel'.state \in {tel.state, tel.state + 1}
               /\ tel'.state # tel.state => Len(tel'.read) = Len(tel.read) + 1
               /\ Len(tel'.read) \in {Len(tel.read), Len(tel.read) + 1}
               /\ tel.pc \in {"emit", "insert", "done"}
                    => /\ tel'.pc \in {"emit", "insert", "done"}
                       /\ tel'.read = tel.read
                       /\ tel'.out = tel.out
                       /\ tel'.commands = tel.commands]_vars
    /\ [](/\ tel.state \in {0, 1, 2}
          /\ tel.username = (IF Len(tel.read) >= 1 THEN tel.read[1] ELSE <<>>)
          /\ tel.password = (IF Len(tel.read) >= 2 THEN tel.read[2] ELSE <<>>)
          /\ tel.commands = SubSeq(tel.read, 3, Len(tel.read))
          /\ tel.commands # <<>> => tel.state = 2
          /\ Len(tel.commands) <= 20
          /\ "prompt" \in Range(tel.out) => Len(tel.read) >= 2)

C27_Witness ==
    /\ tel.pc = "done"
    /\ tel.state = 2
    /\ Len(tel.commands) = 20
    /\ tel.lines = 2

(* C28: an FTP session leaves its read loop on PASS and on QUIT: no       *)
(* command but the last one of the trace is PASS or QUIT, and once the     *)
(* loop has ended nothing is read, answered or added to the trace.  The    *)
(* session then builds one event, hands it to the store and publishes it,  *)
(* however the loop ended; the event carries the command trace and the     *)
(* credentials the session captured: the user name of a USER command and   *)
(* the password of a PASS command.                                         *)
C28_FtpEndsAfterPass ==
    /\ [][/\ ftp.pc = "loop" => ftp'.pc \in {"loop", "emit"}
          /\ ftp.pc = "emit" => ftp'.pc = "insert"
          /\ ftp.pc = "insert" => ftp'.pc = "done" /\ Len(published') = 1
          /\ ftp.pc = "done" => ftp' = ftp
          /\ ftp.pc \in {"emit", "insert", "done"}
               => /\ ftp'.commands = ftp.commands
                  /\ ftp'.out = ftp.out
                  /\ ftp'.lines = ftp.lines]_vars
    /\ [](\A k \in 1..Len(ftp.commands) :
             FtpCommand(ftp.commands[k]) \in {V_PASS, V_QUIT}
               => k = Len(ftp.commands) /\ ftp.pc # "loop")
    /\ [](ftp.pc \in {"idle", "loop", "emit"} => published = <<>> /\ inflight = {})
    /\ [](ftp.pc = "done"
            => /\ ftp.event # None
               /\ published = <<ftp.event[1].id>>
               /\ ftp.event[1].service = "ftp"
               /\ ftp.commands # <<>>
                    => ftp.event[1].payload = Some(HexEncode(Join(ftp.commands, 10)))
               /\ ftp.username # <<>> => ftp.event[1].username = Some(ftp.username)
               /\ ftp.password # <<>> => ftp.event[1].password = Some(ftp.password))

(* C29: for every HTTP request whose path is not excluded, the logging     *)
(* task is spawned before the inner handler is invoked; the task sends one *)
(* event to the write buffer and publishes that event to the bus, once;    *)
(* and the inner handler's response is never held back by the task: it can *)
(* be returned while the task has not run, and the task changes nothing of *)
(* the request's progress.                                                  *)
C29_LoggingNeverBlocksRequest ==
    /\ [](\A r \in 1..MaxHttpRequests :
            /\ (http[r].pc \in {"awaiting", "responded"} /\ http[r].path \notin EXCLUDED_PATHS)
                 => http[r].task \in {"spawned", "done"}
            /\ http[r].pc = "awaiting" => ENABLED InnerRespond(r)
            /\ http[r].task # "done" => http[r].event = None
            /\ http[r].task = "done"
                 => /\ http[r].event # None
                    /\ Cardinality({i \in 1..Len(queue) : queue[i].id = http[r].event[1].id}) = 1
                    /\ Cardinality({i \in 1..Len(published) :
                                       published[i] = http[r].event[1].id}) = 1
                    /\ \E i \in 1..Len(queue) : queue[i] = http[r].event[1])
    /\ [](Len(queue) = Cardinality({r \in 1..MaxHttpRequests : http[r].task = "done"})
           /\ Len(published) = Len(queue))
    /\ [][\A r \in 1..MaxHttpRequests :
            /\ http[r].task = "none" /\ http'[r].task # "none"
                 => http[r].pc = "idle" /\ http'[r].pc = "call_inner"
            /\ http'[r].task # http[r].task => http'[r].pc \in {http[r].pc, "call_inner"}
            /\ (http[r].task = "spawned" /\ http'[r].task = "done")
                 => /\ http'[r].pc = http[r].pc
                    /\ Len(queue') = Len(queue) + 1
                    /\ Len(published') = Len(published) + 1
            /\ http[r].task = "done" => http'[r].task = "done" /\ http'[r].event = http[r].event]_vars

C29_Witness ==
    \E r \in 1..MaxHttpRequests :
        /\ http[r].pc = "responded"
        /\ http[r].task = "spawned"
        /\ http[r].path \notin EXCLUDED_PATHS
        /\ \E s \in 1..MaxHttpRequests : http[s].task = "done" /\ http[s].pc = "call_inner"

(* C30: the events of one listener carry non-decreasing timestamps in the  *)
(* order in which they are persisted and in the order in which they are    *)
(* published, also when the listener's connections are served by           *)
(* concurrent tasks.                                                        *)
C30_ListenerTimestampsOrdered ==
    /\ \A i, j \in 1..Len(requests) :
          (i < j /\ requests[i].by = requests[j].by)
            => requests[i].ev.timestamp <= requests[j].ev.timestamp
    /\ \A i, j \in 1..Len(published) :
          i < j =>
            \A a, b \in 1..Len(requests) :
              (/\ requests[a].ev.id = published[i]
               /\ requests[b].ev.id = published[j]
               /\ requests[a].by = requests[b].by)
                => requests[a].ev.timestamp <= requests[b].ev.timestamp

(* C31: nothing is started (no listener task, no aggregation task, no web  *)
(* server) unless the configuration was loaded and found valid and the     *)
(* database was opened and migrated; a failure of the configuration or of  *)
(* the migration ends main with nothing started, for good.                  *)
C31_NothingStartsBeforeConfigAndMigration ==
    /\ [](boot.started # {}
            => /\ boot.loaded /\ boot.connected /\ boot.migrated
               /\ boot.config # None
               /\ boot.config[1].http_port # 0
               /\ boot.config[1].driver \in {"sqlite", "postgres"}
               /\ boot.config[1].host # "" /\ boot.config[1].url # ""
               /\ (boot.config[1].tls_cert = "") = (boot.config[1].tls_key = "")
               /\ boot.config[1].level \in {<<105, 110, 102, 111>>,
                                            <<73, 78, 70, 79>>})
    /\ []((boot.pc \notin {"load"} /\ ~boot.loaded) => boot.pc = "aborted")
    /\ []((boot.pc \notin {"load", "db_new", "migrate"} /\ ~boot.migrated)
            => boot.pc = "aborted")
    /\ [][(boot.pc = "aborted" /\ ~(boot.loaded /\ boot.migrated))
            => (boot' = boot /\ boot.started = {})]_vars

C31_Witness ==
    /\ boot.pc = "serving"
    /\ boot.started = {"write_buffer", "handlers", "backfill", "hourly", "web"}
    /\ boot.config[1].level = <<73, 78, 70, 79>>
    /\ boot.config[1].tls_cert = "cert.pem"

(* The days of the backfill's list: those aggregate_day was called for,    *)
(* then those still to come.                                                *)
BackfillPlan ==
    backfill.calls \o (IF aggRun["backfill"].pc # "idle" THEN Tail(backfill.days)
                       ELSE backfill.days)

(* C32: the backfill calls aggregate_day for the days its query returned   *)
(* one after the other in ascending day order, each a day before the       *)
(* current day that had rows and no rollup row; and when the query         *)
(* returned and the task has finished with no call returning an error,     *)
(* every day before the day of the query that had rows then has a rollup   *)
(* row.                                                                     *)
C32_BackfillAscendingAndComplete ==
    /\ [](\A i, j \in 1..Len(BackfillPlan) : i < j => BackfillPlan[i] < BackfillPlan[j])
    /\ [](backfill.listed
            => /\ \A i \in 1..Len(BackfillPlan) : BackfillPlan[i] \in backfill.had
               /\ \A d \in backfill.had :
                     \/ d \in RollupBuckets(stats_daily)
                     \/ \E i \in 1..Len(BackfillPlan) : BackfillPlan[i] = d)
    /\ [][backfill.listed => BackfillPlan' = BackfillPlan]_vars
    /\ []((backfill.pc = "done" /\ backfill.listed /\ backfill.errors = 0)
            => backfill.had \subseteq RollupBuckets(stats_daily))

C32_Witness ==
    /\ backfill.pc = "done"
    /\ backfill.listed
    /\ backfill.errors = 0
    /\ backfill.calls = <<0, DAY_MS>>
    /\ requests[1].ev.timestamp > requests[2].ev.timestamp
    /\ aggRun["backfill"].result # None
    /\ aggRun["hourly"].result # None

(* C33: once stats_daily has a row for a day, no step changes that row:    *)
(* not an aggregate_day of the backfill or of the hourly task, and not an  *)
(* insert of raw events of that day.                                        *)
C33_RollupRowNeverChanges ==
    [][\A R \in stats_daily : R \in stats_daily']_vars

(* C38: in every row of stats_daily the counts of service_counts add up to *)
(* total_requests, also when rows of that day are inserted between the     *)
(* queries of aggregate_day.                                                *)
C38_ServiceCountsSumToTotal ==
    \A R \in stats_daily : CountsTotal(R.service_counts) = R.total_requests

(* C39: stats_daily never holds two rows for one day; the upsert of an     *)
(* aggregate_day call leaves, for its day, the row that call computed;     *)
(* and when the backfill and the hourly task have both aggregated the same *)
(* day, each having passed its exists check before the other wrote, the    *)
(* day's row is the row of one of the two.                                  *)
C39_ConcurrentAggregateOneRow ==
    /\ [](\A R1, R2 \in stats_daily : R1.day_bucket = R2.day_bucket => R1 = R2)
    /\ [][\A c \in AggTasks :
            (aggRun[c].pc = "upsert" /\ aggRun'[c].pc = "idle" /\ stats_daily' # stats_daily)
              => /\ aggRun'[c].result # None
                 /\ {R \in stats_daily' : R.day_bucket = aggRun[c].day}
                      = {aggRun'[c].result[1]}
                 /\ {R \in stats_daily' : R.day_bucket # aggRun[c].day}
                      = {R \in stats_daily : R.day_bucket # aggRun[c].day}]_vars
    /\ []((/\ aggRun["backfill"].result # None
           /\ aggRun["hourly"].result # None
           /\ aggRun["backfill"].result[1].day_bucket = aggRun["hourly"].result[1].day_bucket)
            => \E R \in {aggRun["backfill"].result[1], aggRun["hourly"].result[1]} :
                  {S \in stats_daily : S.day_bucket = R.day_bucket} = {R})

C39_Witness ==
    /\ aggRun["backfill"].result # None
    /\ aggRun["hourly"].result # None
    /\ aggRun["backfill"].result[1].day_bucket = aggRun["hourly"].result[1].day_bucket
    /\ aggRun["backfill"].result[1] # aggRun["hourly"].result[1]
    /\ aggRun["backfill"].result[1] \in stats_daily
    /\ aggRun["backfill"].pc = "idle" /\ aggRun["hourly"].pc = "idle"

(* C34: the worker's batch never holds more than BATCH_SIZE events; with   *)
(* BATCH_SIZE events in it the worker is in the flush that the push        *)
(* started, never back at its select; and every flush, stored or failed,   *)
(* leaves the batch empty.                                                  *)
C34_BatchAtMost100 ==
    /\ [](Len(buffer) <= BATCH_SIZE)
    /\ [](Len(buffer) = BATCH_SIZE => wbpc = "flush_full")
    /\ [][(Len(buffer) < BATCH_SIZE /\ Len(buffer') = BATCH_SIZE)
            => (wbpc = "select" /\ wbpc' = "flush_full"
                /\ attempted' = attempted \cup Ids(buffer'))]_vars
    /\ [][(Flushing /\ ~Flushing') => buffer' = <<>>]_vars
    /\ [][buffer' # buffer
            => \/ Flushing /\ buffer' = <<>>
               \/ wbpc = "select" /\ Len(buffer') = Len(buffer) + 1]_vars

(* A batch of BATCH_SIZE events was flushed at once, the flush failed and  *)
(* the batch is empty.                                                      *)
C34_Witness ==
    /\ wbpc = "select"
    /\ buffer = <<>>
    /\ Cardinality(failed) = BATCH_SIZE
    /\ requests = <<>>

(* What a user entered, read from the characters of a data packet: the     *)
(* lines completed by CR or LF, each without the characters a backspace    *)
(* took back or a Ctrl-C cleared, without the surrounding blanks, and      *)
(* dropped when nothing is left; rest is the line still being typed.       *)
RECURSIVE EnteredLines(_, _)
EnteredLines(line, chars) ==
    IF chars = <<>> THEN [lines |-> <<>>, rest |-> line]
    ELSE LET ch == Head(chars)
             t  == Tail(chars)
         IN  CASE ch \in {10, 13} ->
                    LET first == {i \in 1..Len(line) : line[i] # 32}
                        kept  == IF first = {} THEN <<>>
                                 ELSE SubSeq(line,
                                             CHOOSE i \in first : \A j \in first : i <= j,
                                             CHOOSE i \in first : \A j \in first : i >= j)
                        r     == EnteredLines(<<>>, t)
                    IN  [lines |-> (IF kept = <<>> THEN <<>> ELSE <<kept>>) \o r.lines,
                         rest |-> r.rest]
               [] ch \in {8, 127} ->
                    EnteredLines(IF line = <<>> THEN line
                                 ELSE SubSeq(line, 1, Len(line) - 1), t)
               [] ch = 3 -> EnteredLines(<<>>, t)
               [] ch >= 32 /\ ch < 127 ->
                    EnteredLines(IF Len(line) < MAX_LINE_BUFFER THEN Append(line, ch)
                                 ELSE line, t)
               [] OTHER -> EnteredLines(line, t)

(* The commands of a history, one after the other with a newline between. *)
RECURSIVE NewlineJoined(_)
NewlineJoined(cmds) ==
    IF Len(cmds) = 1 THEN cmds[1] ELSE cmds[1] \o <<10>> \o NewlineJoined(Tail(cmds))

(* The transcript events a step sends, each with the history it was built  *)
(* from: the channel's history after the step, or before it when the step  *)
(* removed the channel.                                                     *)
TranscriptOf(e) ==
    e.payload # None
      /\ LET cmds == IF e.chan \in DOMAIN channels' THEN channels'[e.chan].commands
                     ELSE channels[e.chan].commands
         IN  /\ cmds # <<>>
             /\ e.payload[1] = HexEncode(NewlineJoined(cmds))
             /\ e.request_size = Len(NewlineJoined(cmds))

(* A channel's history grows by the lines entered in a data packet, in     *)
(* their order, or by the command of an exec request as it was sent.        *)
HistoryGrowsAsEntered(c, withExec) ==
    \/ channels'[c].commands = channels[c].commands
    \/ \E data \in SshPackets :
          LET r == EnteredLines(channels[c].line_buffer, FromUtf8Lossy(data))
          IN  /\ channels'[c].commands = channels[c].commands \o r.lines
              /\ channels'[c].line_buffer = r.rest
    \/ /\ withExec
       /\ \E data \in SshExecCommands :
             channels'[c].commands = Append(channels[c].commands, FromUtf8Lossy(data))

(* C35, as the code has it: the payload of a transcript event is the       *)
(* channel's command history joined by newline (hex-encoded by             *)
(* with_payload) and request_size is the length of the joined string; the  *)
(* history holds, in order, the lines entered on the channel, trimmed,     *)
(* never empty, the exit line included and without erased or cleared       *)
(* characters, and the commands of the channel's exec requests exactly as  *)
(* they were sent.                                                          *)
C35_PayloadIsCommandHistory ==
    /\ [][Len(queue') > Len(queue)
            => (Len(queue') = Len(queue) + 1 /\ TranscriptOf(queue'[Len(queue')]))]_vars
    /\ [][\A c \in DOMAIN channels \cap DOMAIN channels' :
            HistoryGrowsAsEntered(c, TRUE)]_vars

(* The history "lsls" came from "lx", a backspace and "s", then "ls" and a *)
(* newline, and the event was sent when the channel closed.                 *)
C35_Witness ==
    /\ 0 \notin DOMAIN channels
    /\ \E i \in 1..Len(queue) :
          /\ queue[i].payload = Some(HexEncode(W_ls \o W_ls))
          /\ queue[i].request_size = 4
          /\ queue[i].chan = 0

(* C35, as stated: every command line of a transcript is a line entered on *)
(* the channel, trimmed and not empty.                                      *)
C35_PayloadIsEnteredLines ==
    /\ [][Len(queue') > Len(queue)
            => (Len(queue') = Len(queue) + 1 /\ TranscriptOf(queue'[Len(queue')]))]_vars
    /\ [](\A c \in DOMAIN channels :
            \A k \in 1..Len(channels[c].commands) :
               LET cmd == channels[c].commands[k]
               IN  cmd # <<>> /\ cmd[1] # 32 /\ cmd[Len(cmd)] # 32)

(* C40: once a data callback of an SSH channel has decided to close the    *)
(* channel, nothing more is recorded or answered on it: no command line    *)
(* is recorded after an exit, quit or logout line of the same packet, and  *)
(* a packet that arrives after the close was sent leaves every history as  *)
(* it is and writes nothing to the client.                                  *)
C40_NothingAfterClose ==
    /\ [][\A c \in DOMAIN channels \cap DOMAIN channels' :
            \A k \in (Len(channels[c].commands) + 1)..(Len(channels'[c].commands) - 1) :
               ToLowercase(channels'[c].commands[k]) \notin {W_exit, W_quit, W_logout}]_vars
    /\ [][Text("CHANNEL_CLOSE") \in Range(ssh_out)
            => /\ \A c \in DOMAIN channels \cap DOMAIN channels' :
                    channels'[c].commands = channels[c].commands
               /\ ssh_out' = <<>>]_vars

(* How often an event id was published. *)
TimesPublished(id) == Cardinality({i \in 1..Len(published) : published[i] = id})

(* The events whose handler is still waiting for db.insert_event. *)
AwaitingInsert == {p.ev.id : p \in inflight}

(* C37: every event a handler has emitted is published exactly once, not   *)
(* at all only while its handler still waits for its direct insert; the    *)
(* end of a direct insert publishes its event whether the insert succeeded *)
(* or not, and the end of a batch flush, failed or not, publishes nothing. *)
C37_PublishedExactlyOnce ==
    /\ [](\A id \in 1..(nextEv - 1) :
            TimesPublished(id) = IF id \in AwaitingInsert THEN 0 ELSE 1)
    /\ [](\A i \in 1..Len(published) : published[i] \in 1..(nextEv - 1))
    /\ [][failed' # failed => published' = published]_vars

(* One event whose direct insert failed and one event of a failed batch:   *)
(* both were published once and neither is a row of the store.              *)
C37_Witness ==
    /\ \E id \in failed : TimesPublished(id) = 1 /\ id \notin StoredIds
    /\ \E id \in 1..(nextEv - 1) :
          /\ TimesPublished(id) = 1
          /\ id \notin StoredIds \cup AwaitingInsert \cup failed
          /\ id \notin Ids(queue) \cup Ids(buffer)
          /\ id \notin Range(dequeued)

(* The rollup rows of the complete days of the last call's range:          *)
(* [first_complete_day, today_midnight).                                    *)
CompleteDayRows ==
    LET today == (now \div DAY_MS) * DAY_MS
        first == ((now - statsCall.hours * HOUR_MS) \div DAY_MS) * DAY_MS + DAY_MS
    IN  {R \in stats_daily : first <= R.day_bucket /\ R.day_bucket < today}

(* Per key, the sum of the key's counts over the rows. *)
PathSums(S) ==
    [k \in UNION {DOMAIN R.path_counts : R \in S} |->
        CountsTotal([R \in S |-> IF k \in DOMAIN R.path_counts
                                 THEN R.path_counts[k] ELSE 0])]

ServiceSums(S) ==
    [k \in UNION {DOMAIN R.service_counts : R \in S} |->
        CountsTotal([R \in S |-> IF k \in DOMAIN R.service_counts
                                 THEN R.service_counts[k] ELSE 0])]

CredentialSums(S) ==
    [k \in UNION {{<<R.credential_counts[i].u, R.credential_counts[i].p>> :
                      i \in 1..Len(R.credential_counts)} : R \in S} |->
        CountsTotal([R \in S |->
            CountsTotal([i \in {j \in 1..Len(R.credential_counts) :
                                  <<R.credential_counts[j].u, R.credential_counts[j].p>> = k}
                            |-> R.credential_counts[i].c])])]

(* The keys of the entries of a list. *)
ServiceKeys(list) == [i \in DOMAIN list |-> list[i].service]

CredentialKeys(list) == [i \in DOMAIN list |-> <<list[i].username, list[i].password>>]

PathKeys(list) == [i \in DOMAIN list |-> list[i].path]

(* list holds keys of sums, each once and with its sum. *)
ListOfSums(list, keys, sums) ==
    /\ \A i \in 1..Len(list) :
          keys[i] \in DOMAIN sums /\ list[i].count = sums[keys[i]]
    /\ \A i, j \in 1..Len(list) : i # j => keys[i] # keys[j]

CountDescending(list) ==
    \A i \in 1..(Len(list) - 1) : list[i].count >= list[i + 1].count

(* list holds the n keys of the largest sums, or every key when there are  *)
(* no more than n.                                                          *)
CutToTop(list, keys, sums, n) ==
    /\ Len(list) = IF Cardinality(DOMAIN sums) > n THEN n ELSE Cardinality(DOMAIN sums)
    /\ \A k \in DOMAIN sums :
          (\A i \in 1..Len(list) : keys[i] # k) => sums[k] <= list[Len(list)].count

(* C36: for hours of 168, 720 or 8760 and at least one rollup row in       *)
(* [first_complete_day, today_midnight), the result's total is the sum of  *)
(* those rows' total_requests, and services, credentials and paths are the *)
(* per-key sums over those rows, each sorted by count descending,          *)
(* credentials and paths cut to the top 50 and services not cut.           *)
C36_RollupStatsMergedSortedCut ==
    (statsCall.calls > 0 /\ statsCall.hours \in {168, 720, 8760} /\ CompleteDayRows # {})
    => LET resp == statsCall.resp
           S    == CompleteDayRows
       IN  /\ resp.source = "rollup"
           /\ resp.total = CountsTotal([R \in S |-> R.total_requests])
           /\ ListOfSums(resp.services, ServiceKeys(resp.services), ServiceSums(S))
           /\ Len(resp.services) = Cardinality(DOMAIN ServiceSums(S))
           /\ CountDescending(resp.services)
           /\ ListOfSums(resp.credentials, CredentialKeys(resp.credentials),
                         CredentialSums(S))
           /\ CutToTop(resp.credentials, CredentialKeys(resp.credentials),
                       CredentialSums(S), 50)
           /\ CountDescending(resp.credentials)
           /\ ListOfSums(resp.paths, PathKeys(resp.paths), PathSums(S))
           /\ CutToTop(resp.paths, PathKeys(resp.paths), PathSums(S), 50)
           /\ CountDescending(resp.paths)

====
